---- MODULE Spec2Model ----
(***************************************************************************)
(* Model of menu_select_game::persistent_data (frontend/mame/ui/          *)
(* selgame.cpp): the staged cache of system information that a builder    *)
(* thread fills while foreground threads read it through an availability  *)
(* mask, a mutex and a condition variable.                                 *)
(*                                                                         *)
(* Strings are sequences of character codes (ASCII), e.g. <<97>> is "a".  *)
(***************************************************************************)
EXTENDS Integers, Sequences, FiniteSets, TLC

\* ------------------------------------------------------------------------
\* Bounds of the model
\* ------------------------------------------------------------------------

\* number of foreground threads that call into the cache
NumFg == 2

Threads == 1..NumFg

\* number of builds, one per life of the cache between two resets, that RebuildSpec follows
MaxBuilds == 2

\* ------------------------------------------------------------------------
\* enum available
\* ------------------------------------------------------------------------

AVAIL_NONE == {}

AVAIL_SORTED_LIST == 1

AVAIL_BIOS_COUNT == 2

AVAIL_UCS_SHORTNAME == 4

AVAIL_UCS_DESCRIPTION == 8

AVAIL_UCS_MANUF_DESC == 16

AVAIL_UCS_DFLT_DESC == 32

AVAIL_UCS_MANUF_DFLT_DESC == 64

AVAIL_FILTER_DATA == 128

Stages ==
    { AVAIL_SORTED_LIST, AVAIL_BIOS_COUNT, AVAIL_UCS_SHORTNAME, AVAIL_UCS_DESCRIPTION,
      AVAIL_UCS_MANUF_DESC, AVAIL_UCS_DFLT_DESC, AVAIL_UCS_MANUF_DFLT_DESC, AVAIL_FILTER_DATA }

\* ------------------------------------------------------------------------
\* Strings
\* ------------------------------------------------------------------------

\* std::string_view operator< : lexicographic comparison of the bytes
RECURSIVE StrLess(_, _)
StrLess(a, b) ==
    IF b = <<>> THEN FALSE
    ELSE IF a = <<>> THEN TRUE
    ELSE IF a[1] # b[1] THEN a[1] < b[1]
    ELSE StrLess(Tail(a), Tail(b))

\* the filter that normalize_unicode(..., form D, fold case) applies to one character
FoldChar(c) == IF c >= 65 /\ c <= 90 THEN c + 32 ELSE c

\* normalize_unicode(s, unicode_normalization_form::D, true) followed by ustr_from_utf8
normalize_unicode(s) == [i \in 1..Len(s) |-> FoldChar(s[i])]

\* is the character white space for strtrimspace
IsSpace(c) == c = 32 \/ c = 9 \/ c = 10 \/ c = 13

\* strtrimspace: drop leading and trailing white space
RECURSIVE strtrimspace(_)
strtrimspace(s) ==
    IF s = <<>> THEN s
    ELSE IF IsSpace(s[1]) THEN strtrimspace(Tail(s))
    ELSE IF IsSpace(s[Len(s)]) THEN strtrimspace(SubSeq(s, 1, Len(s) - 1))
    ELSE s

\* std::find / std::find_if over s[from..upto-1]: first position holding a character of `chars`, else upto
RECURSIVE FindChar(_, _, _, _)
FindChar(s, from, upto, chars) ==
    IF from >= upto THEN upto
    ELSE IF s[from] \in chars THEN from
    ELSE FindChar(s, from + 1, upto, chars)

\* ------------------------------------------------------------------------
\* The system catalog (driver_list) and the titles file
\* ------------------------------------------------------------------------

\* "0": the parent field of a system without parent
NoParent == <<48>>

\* "___empty": the short name of the placeholder driver
EmptyName == <<95, 95, 95, 101, 109, 112, 116, 121>>

\* game_driver
Driver(name, parent, fullname, manufacturer, year, bios) ==
    [name |-> name, parent |-> parent, fullname |-> fullname,
     manufacturer |-> manufacturer, year |-> year, is_bios_root |-> bios]

\* the catalog of the concurrency model, ordered by short name:
\*   ___empty, "a" "Cc" (M, 1), "b" "Aa" clone of a (M, 2), "c" "Bb" BIOS root (N, 1)
\* (in display order: c, a, b)
Catalog0 ==
    << Driver(EmptyName, NoParent, <<>>, <<>>, <<>>, FALSE),
       Driver(<<97>>, NoParent, <<67, 99>>, <<77>>, <<49>>, FALSE),
       Driver(<<98>>, <<97>>, <<65, 97>>, <<77>>, <<50>>, FALSE),
       Driver(<<99>>, NoParent, <<66, 98>>, <<78>>, <<49>>, TRUE) >>

\* the titles file of the concurrency model: "b<TAB>Zz<TAB>Yy<LF>" and a line without tab
Titles0 ==
    << <<98, 9, 90, 122, 9, 89, 121, 10>>,
       <<120, 10>> >>

\* the largest number of systems, the placeholder not counted, in the catalogs of ListSpec
MaxSystems == 3

\* the largest number of lines in the titles files of ListSpec
MaxLines == 2

\* the short name of the k-th system of a catalog: "1", then "a", "b", ...; "1" sorts before
\* "___empty", the letters after it
SystemName(k) == IF k = 1 THEN <<49>> ELSE <<95 + k>>

\* the full names of the systems: "A" and "B", so that display names can be equal
FullNames == { <<65>>, <<66>> }

\* parent names that no system of the catalog has: "9" sorts among the short names, "z" after them
MissingParents == { <<57>>, <<122>> }

\* the parent, full name and BIOS flag of each of n systems
SystemAttributes(n) ==
    [ 1..n -> [ parent : {NoParent} \cup MissingParents \cup { SystemName(k) : k \in 1..n },
                fullname : FullNames,
                bios : BOOLEAN ] ]

\* system k is a clone: its parent is in the catalog and is no BIOS root
CloneIn(f, n, k) == \E j \in 1..n : f[k].parent = SystemName(j) /\ ~f[j].bios

\* the catalogs the validity checks let through: no system is its own parent, a BIOS root has no
\* parent, the parent of a clone is not itself a clone
ValidSystems(f, n) ==
    \A k \in 1..n :
        /\ f[k].parent # SystemName(k)
        /\ f[k].bios => f[k].parent = NoParent
        /\ \A j \in 1..n : CloneIn(f, n, k) /\ f[k].parent = SystemName(j) => ~CloneIn(f, n, j)

\* the driver list of n systems, ordered by short name: "1", "___empty", "a", "b", ...
CatalogOf(f, n) ==
    [ i \in 1..(n + 1) |->
        IF i = 2 THEN Driver(EmptyName, NoParent, <<>>, <<>>, <<>>, FALSE)
        ELSE LET k == IF i = 1 THEN 1 ELSE i - 1
             IN  Driver(SystemName(k), f[k].parent, f[k].fullname, <<77>>, <<49>>, f[k].bios) ]

\* the catalogs of ListSpec
Catalogs ==
    UNION { { CatalogOf(f, n) : f \in { g \in SystemAttributes(n) : ValidSystems(g, n) } } :
            n \in 1..MaxSystems }

\* a line of the titles file: short name, tab, description, and a tab and a reading unless
\* reading is <<0>>, which stands for a line without second tab
TitleLine(name, description, reading) ==
    name \o <<9>> \o description \o (IF reading = <<0>> THEN <<>> ELSE <<9>> \o reading) \o <<10>>

\* the lines of ListSpec, for the catalog Catalog0: lines for "b" with the description empty,
\* "P" or "Q " and the reading absent, empty, "R" or " S"; a line for "ab", which sorts before
\* "b", and one for "x", which sorts after every short name; the line "b" without tab
TitleLines ==
    { TitleLine(<<98>>, d, r) : d \in { <<>>, <<80>>, <<81, 32>> },
                                r \in { <<0>>, <<>>, <<82>>, <<32, 83>> } }
    \cup { TitleLine(<<97, 98>>, <<80>>, <<82>>), TitleLine(<<120>>, <<80>>, <<82>>), <<98, 10>> }

\* the titles files of ListSpec: up to MaxLines lines
TitleFiles == UNION { [ 1..n -> TitleLines ] : n \in 0..MaxLines }

\* ------------------------------------------------------------------------
\* State
\* ------------------------------------------------------------------------

VARIABLES
    catalog,        \* driver_list: the drivers, ordered by short name
    titles,         \* the lines of the system names file
    m_mutex,        \* std::mutex: the set holding its owner, empty when unlocked
    m_condition,    \* std::condition_variable: the threads blocked in wait()
    m_thread,       \* std::unique_ptr<std::thread>: 0 is null, else the number of the thread object
    m_started,      \* std::atomic<bool>
    m_available,    \* std::atomic<unsigned>: the set of bits that are set
    m_sorted_list,  \* std::vector<ui_system_info>
    m_filter_data,  \* machine_filter_data
    m_bios_count,   \* int
    b_pc,           \* the builder thread's position in do_cache_data
    b_x,            \* the builder's loop index
    b_value,        \* the argument of the notify_available call in progress
    try_titles,     \* do_cache_data's local try_titles
    pc,             \* each foreground thread's position
    desired,        \* each foreground thread's wait_available argument
    caller,         \* the member function each foreground thread called
    spawned,        \* number of builder threads created since construction or the last reset
    aborted,        \* assert(m_started) failed in a build with assertions enabled
    builds,         \* history: the builder threads created since construction, counted by RebuildSpec
    s_pc,           \* the position of the thread that runs the menu_select_game, "none" without menu
    s_x,            \* the index of the loop that populate_search is in
    m_search,       \* menu_select_game::m_search: the search text
    m_searchlist,   \* menu_select_game::m_searchlist: pairs of a score and a reference to an entry
    m_searched_fields,  \* menu_select_game::m_searched_fields: the set of bits that are set
    settings,       \* the sequence configured for each input of the machine (ioport), by item
    data,           \* menu_input::data: the items, each with its copy of the sequence
    pollingitem,    \* menu_input::pollingitem: 0 is null, else the index of the item in data
    seq_poll,       \* menu_input::seq_poll: NoPoller is null, else the state of the poller
    errormsg,       \* menu_input::errormsg
    erroritem,      \* menu_input::erroritem: 0 is null
    lastitem,       \* menu_input::lastitem: 0 is null
    record_next,    \* menu_input::record_next
    modified_ticks, \* menu_input::modified_ticks
    starting_seq,   \* menu_input::starting_seq
    osd,            \* the value of the last osd_ticks() call
    selected,       \* the item the menu's selection is on: 0 is a row without reference
    populated,      \* the menu has its rows: FALSE after reset() until populate
    menu_event,     \* handle's local menu_event in its last call
    seqchangeditem, \* handle's local seqchangeditem at the end of its last call: 0 is null
    polled          \* what the polling branch of handle met in its last call

vars ==
    << catalog, titles, m_mutex, m_condition, m_thread, m_started, m_available,
       m_sorted_list, m_filter_data, m_bios_count, b_pc, b_x, b_value, try_titles,
       pc, desired, caller, spawned, aborted, builds,
       s_pc, s_x, m_search, m_searchlist, m_searched_fields,
       settings, data, pollingitem, seq_poll, errormsg, erroritem, lastitem, record_next,
       modified_ticks, starting_seq, osd, selected, populated, menu_event, seqchangeditem, polled >>

inputVars == << catalog, titles >>

mapVars ==
    << settings, data, pollingitem, seq_poll, errormsg, erroritem, lastitem, record_next,
       modified_ticks, starting_seq, osd, selected, populated, menu_event, seqchangeditem, polled >>

syncVars == << m_mutex, m_condition, m_thread, m_started, m_available >>

dataVars == << m_sorted_list, m_filter_data, m_bios_count >>

builderVars == << b_pc, b_x, b_value, try_titles >>

fgVars == << pc, desired, caller >>

sessionVars == << s_pc, s_x, m_search, m_searchlist, m_searched_fields >>

\* the owner recorded in m_mutex while the builder thread holds it
Builder == NumFg + 1

\* ------------------------------------------------------------------------
\* Catalog access
\* ------------------------------------------------------------------------

\* driver_list::total()
driver_list_total == Len(catalog)

\* driver_list::find(name): the position of the driver with that short name, 0 when there is none
driver_list_find(name) ==
    IF \E i \in 1..Len(catalog) : catalog[i].name = name
    THEN CHOOSE i \in 1..Len(catalog) : catalog[i].name = name
    ELSE 0

\* (driver.parent[0] != '0') || driver.parent[1]
HasParent(driver) == driver.parent # NoParent

\* ui_system_info(driver, index, available): a fresh entry, all strings empty
ui_system_info(x) ==
    [driver |-> x, index |-> x, available |-> FALSE, is_clone |-> FALSE,
     description |-> <<>>, parent |-> <<>>,
     reading_description |-> <<>>, reading_parent |-> <<>>,
     ucs_shortname |-> <<>>, ucs_description |-> <<>>,
     ucs_manufacturer_description |-> <<>>,
     ucs_reading_description |-> <<>>, ucs_manufacturer_reading_description |-> <<>>,
     ucs_default_description |-> <<>>, ucs_manufacturer_default_description |-> <<>>]

\* machine_filter_data(): no manufacturers, no years, not finalised, the first filter type current
machine_filter_data ==
    [manufacturers |-> {}, years |-> {}, finalised |-> FALSE, current_filter_type |-> "FIRST"]

\* "<manufacturer> <text>"
ManufacturerAnd(driver, text) == driver.manufacturer \o <<32>> \o text

\* std::lower_bound over m_sorted_list with a.driver->name < b: bisection on [first, first + len)
RECURSIVE lower_bound(_, _, _, _)
lower_bound(list, key, first, len) ==
    IF len = 0 THEN first
    ELSE LET half == len \div 2
             mid == first + half
         IN  IF StrLess(catalog[list[mid].driver].name, key)
             THEN lower_bound(list, key, mid + 1, len - half - 1)
             ELSE lower_bound(list, key, first, half)

\* ------------------------------------------------------------------------
\* populate_list: the body of the loop for driver x
\* ------------------------------------------------------------------------

\* populate_entry that never copies the description from the catalog
populate_entry_NoDescription(x, copydesc) ==
    LET driver == catalog[x]
        ins == ui_system_info(x)
        parentindex == driver_list_find(driver.parent)
        withparent ==
            IF ~HasParent(driver) THEN ins
            ELSE IF copydesc
                 THEN IF parentindex # 0
                      THEN [ins EXCEPT !.is_clone = ~catalog[parentindex].is_bios_root,
                                       !.parent = catalog[parentindex].fullname]
                      ELSE [ins EXCEPT !.is_clone = FALSE, !.parent = driver.parent]
                 ELSE [ins EXCEPT !.is_clone = (parentindex # 0) /\ ~catalog[parentindex].is_bios_root]
    IN  IF driver.name = EmptyName THEN ins ELSE withparent

\* populate_list: the entry for driver x
populate_entry(x, copydesc) ==
    LET driver == catalog[x]
        ins == ui_system_info(x)
        parentindex == driver_list_find(driver.parent)
        withparent ==
            IF ~HasParent(driver) THEN ins
            ELSE IF copydesc
                 THEN IF parentindex # 0
                      THEN [ins EXCEPT !.is_clone = ~catalog[parentindex].is_bios_root,
                                       !.parent = catalog[parentindex].fullname]
                      ELSE [ins EXCEPT !.is_clone = FALSE, !.parent = driver.parent]
                 ELSE [ins EXCEPT !.is_clone = (parentindex # 0) /\ ~catalog[parentindex].is_bios_root]
    IN  IF driver.name = EmptyName THEN ins
        ELSE IF copydesc THEN [withparent EXCEPT !.description = driver.fullname]
        ELSE withparent

\* ------------------------------------------------------------------------
\* load_titles: the body of the loop for one line of the file
\* ------------------------------------------------------------------------

\* eoln: the first NUL, line feed or carriage return of the buffer (the NUL that ends it at the latest)
title_eoln(readbuf) == FindChar(readbuf, 1, Len(readbuf) + 1, {0, 10, 13})

\* split, descend, readend: the next tab at or after position from, eoln when there is none
title_tab(readbuf, from, eoln) == FindChar(readbuf, from, eoln, {9})

\* found: the entry std::lower_bound locates for the short name before split
title_found(list, readbuf, split) == lower_bound(list, SubSeq(readbuf, 1, split - 1), 1, Len(list))

\* load_title_line that stores every description that is not empty, also over an earlier one
load_title_line_Overwrite(list, readbuf, eoln, split, found, descend, readend) ==
    LET shortname == SubSeq(readbuf, 1, split - 1)
        description == strtrimspace(SubSeq(readbuf, split + 1, descend - 1))
        reading == strtrimspace(SubSeq(readbuf, descend + 1, readend - 1))
        withdesc ==
            IF description = <<>>
            THEN list[found]
            ELSE [list[found] EXCEPT !.description = description]
        withreading ==
            IF eoln = descend \/ reading = <<>>
            THEN withdesc
            ELSE [withdesc EXCEPT
                    !.reading_description = reading,
                    !.ucs_reading_description = normalize_unicode(reading),
                    !.ucs_manufacturer_reading_description =
                        normalize_unicode(ManufacturerAnd(catalog[withdesc.driver], reading))]
    IN  IF eoln = split THEN list
        ELSE IF found = Len(list) + 1 \/ shortname # catalog[list[found].driver].name THEN list
        ELSE [list EXCEPT ![found] = withreading]

\* load_title_line that takes the entry lower_bound finds, whatever its short name
load_title_line_NoExactMatch(list, readbuf, eoln, split, found, descend, readend) ==
    LET description == strtrimspace(SubSeq(readbuf, split + 1, descend - 1))
        reading == strtrimspace(SubSeq(readbuf, descend + 1, readend - 1))
        withdesc ==
            IF description = <<>> \/ list[found].description # <<>>
            THEN list[found]
            ELSE [list[found] EXCEPT !.description = description]
        withreading ==
            IF eoln = descend \/ reading = <<>>
            THEN withdesc
            ELSE [withdesc EXCEPT
                    !.reading_description = reading,
                    !.ucs_reading_description = normalize_unicode(reading),
                    !.ucs_manufacturer_reading_description =
                        normalize_unicode(ManufacturerAnd(catalog[withdesc.driver], reading))]
    IN  IF eoln = split THEN list
        ELSE IF found = Len(list) + 1 THEN list
        ELSE [list EXCEPT ![found] = withreading]

\* the rest of the loop body, given the positions found in the line
load_title_line(list, readbuf, eoln, split, found, descend, readend) ==
    LET shortname == SubSeq(readbuf, 1, split - 1)
        description == strtrimspace(SubSeq(readbuf, split + 1, descend - 1))
        reading == strtrimspace(SubSeq(readbuf, descend + 1, readend - 1))
        withdesc ==
            IF description = <<>> \/ list[found].description # <<>>
            THEN list[found]
            ELSE [list[found] EXCEPT !.description = description]
        withreading ==
            IF eoln = descend \/ reading = <<>>
            THEN withdesc
            ELSE [withdesc EXCEPT
                    !.reading_description = reading,
                    !.ucs_reading_description = normalize_unicode(reading),
                    !.ucs_manufacturer_reading_description =
                        normalize_unicode(ManufacturerAnd(catalog[withdesc.driver], reading))]
    IN  IF eoln = split THEN list
        ELSE IF found = Len(list) + 1 \/ shortname # catalog[list[found].driver].name THEN list
        ELSE [list EXCEPT ![found] = withreading]

\* fill_description that leaves the entry as it is
fill_description_Never(info) == info

\* load_titles: the body of the loop that fills in untranslated descriptions
fill_description(info) ==
    IF info.description = <<>>
    THEN [info EXCEPT !.description = catalog[info.driver].fullname]
    ELSE info

\* ------------------------------------------------------------------------
\* populate_parents: the body of the loop for one entry
\* ------------------------------------------------------------------------

populate_parent(list, info) ==
    LET driver == catalog[info.driver]
        found == lower_bound(list, driver.parent, 1, Len(list))
    IN  IF ~HasParent(driver) THEN info
        ELSE IF found # Len(list) + 1
        THEN [info EXCEPT !.parent = list[found].description,
                          !.reading_parent = list[found].reading_description]
        ELSE [info EXCEPT !.parent = driver.parent]

\* ------------------------------------------------------------------------
\* The display sort
\* ------------------------------------------------------------------------

\* compare_names: 0 > coll.compare(wx, wy), the collation of the "C" locale; the strings of the
\* model are ASCII, which wstring_from_utf8 maps to the same codes
compare_names(wx, wy) == StrLess(wx, wy)

\* reading_description if present, else the description
DisplayName(info) ==
    IF info.reading_description = <<>> THEN info.description ELSE info.reading_description

\* reading_parent if present, else the parent description
ParentDisplayName(info) ==
    IF info.reading_parent = <<>> THEN info.parent ELSE info.reading_parent

\* the comparator handed to std::stable_sort
sort_compare(lhs, rhs) ==
    LET x == catalog[lhs.driver]
        y == catalog[rhs.driver]
    IN  IF ~lhs.is_clone /\ ~rhs.is_clone
        THEN compare_names(DisplayName(lhs), DisplayName(rhs))
        ELSE IF lhs.is_clone /\ rhs.is_clone
        THEN IF x.parent = y.parent
             THEN compare_names(DisplayName(lhs), DisplayName(rhs))
             ELSE compare_names(ParentDisplayName(lhs), ParentDisplayName(rhs))
        ELSE IF ~lhs.is_clone /\ rhs.is_clone
        THEN IF x.name = y.parent
             THEN TRUE
             ELSE compare_names(DisplayName(lhs), ParentDisplayName(rhs))
        ELSE IF x.parent = y.name
             THEN FALSE
             ELSE compare_names(ParentDisplayName(lhs), DisplayName(rhs))

\* insertion of val into the sorted prefix: move left past every element val precedes
RECURSIVE linear_insert(_, _)
linear_insert(sorted, val) ==
    IF sorted = <<>> THEN <<val>>
    ELSE IF sort_compare(val, sorted[Len(sorted)])
         THEN Append(linear_insert(SubSeq(sorted, 1, Len(sorted) - 1), val), sorted[Len(sorted)])
         ELSE Append(sorted, val)

\* std::stable_sort of a short range: insertion sort, element by element from the left
RECURSIVE stable_sort(_)
stable_sort(list) ==
    IF list = <<>> THEN list
    ELSE linear_insert(stable_sort(SubSeq(list, 1, Len(list) - 1)), list[Len(list)])

\* insertion that first tries the front of the sorted prefix: val goes there when it precedes the
\* first element, else it moves left from the end
front_insert(sorted, val) ==
    IF sorted # <<>> /\ sort_compare(val, sorted[1])
    THEN <<val>> \o sorted
    ELSE linear_insert(sorted, val)

\* std::stable_sort of a short range as insertion sort with the test of the front
RECURSIVE insertion_sort(_)
insertion_sort(list) ==
    IF list = <<>> THEN list
    ELSE front_insert(insertion_sort(SubSeq(list, 1, Len(list) - 1)), list[Len(list)])

\* the merge of two sorted runs: the head of the second run goes first only when it precedes the
\* head of the first
RECURSIVE merge(_, _)
merge(first, second) ==
    IF first = <<>> THEN second
    ELSE IF second = <<>> THEN first
    ELSE IF sort_compare(second[1], first[1])
         THEN <<second[1]>> \o merge(first, Tail(second))
         ELSE <<first[1]>> \o merge(Tail(first), second)

\* std::stable_sort as merge sort: the halves sorted, then merged
RECURSIVE merge_sort(_)
merge_sort(list) ==
    IF Len(list) <= 1 THEN list
    ELSE IF Len(list) = 2
         THEN IF sort_compare(list[2], list[1]) THEN <<list[2], list[1]>> ELSE list
         ELSE LET half == Len(list) \div 2
              IN  merge(merge_sort(SubSeq(list, 1, half)), merge_sort(SubSeq(list, half + 1, Len(list))))

\* the results std::stable_sort can give: the standard library chooses the algorithm, and the
\* algorithms agree only when the comparator is a strict weak ordering
stable_sorts(list) == { stable_sort(list), insertion_sort(list), merge_sort(list) }

\* vector::erase(begin() + pos): the list without its element at position pos
erase(list, pos) == SubSeq(list, 1, pos - 1) \o SubSeq(list, pos + 1, Len(list))

\* ------------------------------------------------------------------------
\* Initial state: the singleton after persistent_data()
\* ------------------------------------------------------------------------

\* no menu_select_game exists
NoSession ==
    /\ s_pc = "none"
    /\ s_x = 1
    /\ m_search = <<>>
    /\ m_searchlist = <<>>
    /\ m_searched_fields = AVAIL_NONE

\* seq_poll holds no poller
NoPoller == [sequence |-> <<>>, modified |-> FALSE, append |-> FALSE, held |-> FALSE]

\* process() returned a null pointer
NoEvent == [itemref |-> 0, iptkey |-> "IPT_INVALID", null |-> TRUE]

\* menu_input::menu_input: the members after construction, with no row in the menu yet
menu_input ==
    /\ data = <<>>
    /\ pollingitem = 0
    /\ seq_poll = NoPoller
    /\ errormsg = ""
    /\ erroritem = 0
    /\ lastitem = 0
    /\ record_next = FALSE
    /\ modified_ticks = 0
    /\ starting_seq = <<>>
    /\ osd = 1
    /\ selected = 0
    /\ populated = FALSE
    /\ menu_event = NoEvent
    /\ seqchangeditem = 0
    /\ polled = "none"

\* no input mapping menu is open, and the machine has no input
NoInputMenu ==
    /\ settings = <<>>
    /\ menu_input

InitCache ==
    /\ m_mutex = {}
    /\ m_condition = {}
    /\ m_thread = 0
    /\ m_started = FALSE
    /\ m_available = AVAIL_NONE
    /\ m_sorted_list = <<>>
    /\ m_filter_data = machine_filter_data
    /\ m_bios_count = 0
    /\ b_pc = "none"
    /\ b_x = 1
    /\ b_value = AVAIL_NONE
    /\ try_titles = FALSE
    /\ pc = [t \in Threads |-> "idle"]
    /\ desired = [t \in Threads |-> AVAIL_NONE]
    /\ caller = [t \in Threads |-> "none"]
    /\ spawned = 0
    /\ aborted = FALSE
    /\ builds = 0
    /\ NoSession

Init ==
    /\ catalog = Catalog0
    /\ titles = Titles0
    /\ InitCache
    /\ NoInputMenu

\* the first call of cache_data has created the builder thread and returned; the catalog and the
\* titles file are any of the bounded ones
ListInit ==
    /\ \/ catalog \in Catalogs /\ titles = Titles0
       \/ catalog = Catalog0 /\ titles \in TitleFiles
    /\ m_mutex = {}
    /\ m_condition = {}
    /\ m_thread = 1
    /\ m_started = TRUE
    /\ m_available = AVAIL_NONE
    /\ m_sorted_list = <<>>
    /\ m_filter_data = machine_filter_data
    /\ m_bios_count = 0
    /\ b_pc = "start"
    /\ b_x = 1
    /\ b_value = AVAIL_NONE
    /\ try_titles = FALSE
    /\ pc = [t \in Threads |-> "idle"]
    /\ desired = [t \in Threads |-> AVAIL_NONE]
    /\ caller = [t \in Threads |-> "none"]
    /\ spawned = 1
    /\ aborted = FALSE
    /\ builds = 0
    /\ NoSession
    /\ NoInputMenu

\* ------------------------------------------------------------------------
\* is_available
\* ------------------------------------------------------------------------

\* (m_available.load(acquire) & desired) == desired
is_available(want) == want \subseteq m_available

\* ------------------------------------------------------------------------
\* The builder thread: do_cache_data
\* ------------------------------------------------------------------------

\* the builder calls notify_available(value)
CallNotify(value) ==
    /\ b_pc' = "notify_available"
    /\ b_value' = {value}
    /\ b_x' = 1

\* the statement of do_cache_data that follows notify_available(value)
AfterNotify(value) ==
    IF value = {AVAIL_BIOS_COUNT}
    THEN IF try_titles THEN (IF titles = <<>> THEN "fill_titles" ELSE "load_titles") ELSE "erase"
    ELSE IF value = {AVAIL_SORTED_LIST} THEN "finalise"
    ELSE IF value = {AVAIL_FILTER_DATA} THEN "ucs_shortname"
    ELSE IF value = {AVAIL_UCS_SHORTNAME} THEN "ucs_description"
    ELSE IF value = {AVAIL_UCS_DESCRIPTION} THEN "ucs_manuf_desc"
    ELSE IF value = {AVAIL_UCS_MANUF_DESC} THEN "ucs_dflt_desc"
    ELSE IF value = {AVAIL_UCS_DFLT_DESC} THEN "ucs_manuf_dflt_desc"
    ELSE "done"

\* the builder goes on with the statement at position next
GoTo(next) ==
    /\ b_pc' = next
    /\ b_x' = 1
    /\ UNCHANGED b_value

\* try_titles: a titles file was asked for and could be opened
OpenTitles ==
    /\ ~aborted
    /\ b_pc = "start"
    /\ \E opened \in BOOLEAN : try_titles' = opened
    /\ b_pc' = "populate_list"
    /\ b_x' = 1
    /\ UNCHANGED << b_value, inputVars, mapVars, builds, sessionVars, syncVars, dataVars, fgVars, spawned, aborted >>

\* PopulateList that counts every system, BIOS root or not
PopulateList_CountsAll ==
    /\ ~aborted
    /\ b_pc = "populate_list"
    /\ LET driver == catalog[b_x]
           real == driver.name # EmptyName
       IN  /\ m_sorted_list' = Append(m_sorted_list, populate_entry(b_x, ~try_titles))
           /\ m_bios_count' = IF real THEN m_bios_count + 1 ELSE m_bios_count
           /\ m_filter_data' =
                IF real
                THEN [m_filter_data EXCEPT !.manufacturers = @ \cup {driver.manufacturer},
                                           !.years = @ \cup {driver.year}]
                ELSE m_filter_data
    /\ IF b_x < driver_list_total
       THEN b_x' = b_x + 1 /\ UNCHANGED << b_pc, b_value >>
       ELSE CallNotify(AVAIL_BIOS_COUNT)
    /\ UNCHANGED << try_titles, inputVars, mapVars, builds, sessionVars, syncVars, fgVars, spawned, aborted >>

\* populate_list(!try_titles): one turn of the loop over the drivers, then notify_available(AVAIL_BIOS_COUNT)
PopulateList ==
    /\ ~aborted
    /\ b_pc = "populate_list"
    /\ LET driver == catalog[b_x]
           real == driver.name # EmptyName
       IN  /\ m_sorted_list' = Append(m_sorted_list, populate_entry(b_x, ~try_titles))
           /\ m_bios_count' = IF real /\ driver.is_bios_root THEN m_bios_count + 1 ELSE m_bios_count
           /\ m_filter_data' =
                IF real
                THEN [m_filter_data EXCEPT !.manufacturers = @ \cup {driver.manufacturer},
                                           !.years = @ \cup {driver.year}]
                ELSE m_filter_data
    /\ IF b_x < driver_list_total
       THEN b_x' = b_x + 1 /\ UNCHANGED << b_pc, b_value >>
       ELSE CallNotify(AVAIL_BIOS_COUNT)
    /\ UNCHANGED << try_titles, inputVars, mapVars, builds, sessionVars, syncVars, fgVars, spawned, aborted >>

\* LoadTitles that erases the placeholder as soon as the last line is read
LoadTitles_ThenErase ==
    /\ ~aborted
    /\ b_pc = "load_titles"
    /\ \E eoln \in {title_eoln(titles[b_x])} :
       \E split \in {title_tab(titles[b_x], 1, eoln)} :
       \E found \in {title_found(m_sorted_list, titles[b_x], split)} :
       \E descend \in {title_tab(titles[b_x], split + 1, eoln)} :
       \E readend \in {title_tab(titles[b_x], descend + 1, eoln)} :
       \E loaded \in {load_title_line(m_sorted_list, titles[b_x], eoln, split, found, descend, readend)} :
         m_sorted_list' = IF b_x < Len(titles) THEN loaded ELSE erase(loaded, driver_list_find(EmptyName))
    /\ IF b_x < Len(titles)
       THEN b_x' = b_x + 1 /\ UNCHANGED << b_pc, b_value >>
       ELSE GoTo("fill_titles")
    /\ UNCHANGED << try_titles, m_filter_data, m_bios_count,
                    inputVars, mapVars, builds, sessionVars, syncVars, fgVars, spawned, aborted >>

\* load_titles: one line of the file
LoadTitles ==
    /\ ~aborted
    /\ b_pc = "load_titles"
    /\ \E eoln \in {title_eoln(titles[b_x])} :
       \E split \in {title_tab(titles[b_x], 1, eoln)} :
       \E found \in {title_found(m_sorted_list, titles[b_x], split)} :
       \E descend \in {title_tab(titles[b_x], split + 1, eoln)} :
       \E readend \in {title_tab(titles[b_x], descend + 1, eoln)} :
         m_sorted_list' = load_title_line(m_sorted_list, titles[b_x], eoln, split, found, descend, readend)
    /\ IF b_x < Len(titles)
       THEN b_x' = b_x + 1 /\ UNCHANGED << b_pc, b_value >>
       ELSE GoTo("fill_titles")
    /\ UNCHANGED << try_titles, m_filter_data, m_bios_count,
                    inputVars, mapVars, builds, sessionVars, syncVars, fgVars, spawned, aborted >>

\* one turn of a loop over m_sorted_list that rewrites entry b_x with Update; `after` follows the loop
ListPass(Update(_), after) ==
    /\ m_sorted_list' =
         IF m_sorted_list = <<>> THEN m_sorted_list
         ELSE [m_sorted_list EXCEPT ![b_x] = Update(m_sorted_list[b_x])]
    /\ IF b_x < Len(m_sorted_list)
       THEN b_x' = b_x + 1 /\ UNCHANGED << b_pc, b_value >>
       ELSE after
    /\ UNCHANGED << try_titles, m_filter_data, m_bios_count,
                    inputVars, mapVars, builds, sessionVars, syncVars, fgVars, spawned, aborted >>

\* load_titles: fill in untranslated descriptions
FillTitles ==
    /\ ~aborted
    /\ b_pc = "fill_titles"
    /\ ListPass(fill_description, GoTo("populate_parents"))

\* populate_parents
PopulateParents ==
    /\ ~aborted
    /\ b_pc = "populate_parents"
    /\ LET Update(info) == populate_parent(m_sorted_list, info)
       IN  ListPass(Update, GoTo("erase"))

\* EraseEmpty that erases the first entry of the list
EraseEmpty_First ==
    /\ ~aborted
    /\ b_pc = "erase"
    /\ m_sorted_list' = erase(m_sorted_list, 1)
    /\ b_pc' = "sort"
    /\ UNCHANGED << b_x, b_value, try_titles, m_filter_data, m_bios_count,
                    inputVars, mapVars, builds, sessionVars, syncVars, fgVars, spawned, aborted >>

\* m_sorted_list.erase(begin() + driver_list::find(___empty))
EraseEmpty ==
    /\ ~aborted
    /\ b_pc = "erase"
    /\ m_sorted_list' = erase(m_sorted_list, driver_list_find(EmptyName))
    /\ b_pc' = "sort"
    /\ UNCHANGED << b_x, b_value, try_titles, m_filter_data, m_bios_count,
                    inputVars, mapVars, builds, sessionVars, syncVars, fgVars, spawned, aborted >>

\* SortList that publishes the list as it is, not sorted
SortList_NoSort ==
    /\ ~aborted
    /\ b_pc = "sort"
    /\ m_sorted_list' = m_sorted_list
    /\ CallNotify(AVAIL_SORTED_LIST)
    /\ UNCHANGED << try_titles, m_filter_data, m_bios_count,
                    inputVars, mapVars, builds, sessionVars, syncVars, fgVars, spawned, aborted >>

\* std::stable_sort, then notify_available(AVAIL_SORTED_LIST)
SortList ==
    /\ ~aborted
    /\ b_pc = "sort"
    /\ m_sorted_list' \in stable_sorts(m_sorted_list)
    /\ CallNotify(AVAIL_SORTED_LIST)
    /\ UNCHANGED << try_titles, m_filter_data, m_bios_count,
                    inputVars, mapVars, builds, sessionVars, syncVars, fgVars, spawned, aborted >>

\* FinaliseFilters without its notify_available call
FinaliseFilters_NoNotify ==
    /\ ~aborted
    /\ b_pc = "finalise"
    /\ m_filter_data' = [m_filter_data EXCEPT !.finalised = TRUE]
    /\ GoTo("ucs_shortname")
    /\ UNCHANGED << try_titles, m_sorted_list, m_bios_count,
                    inputVars, mapVars, builds, sessionVars, syncVars, fgVars, spawned, aborted >>

\* m_filter_data.finalise(), then notify_available(AVAIL_FILTER_DATA)
FinaliseFilters ==
    /\ ~aborted
    /\ b_pc = "finalise"
    /\ m_filter_data' = [m_filter_data EXCEPT !.finalised = TRUE]
    /\ CallNotify(AVAIL_FILTER_DATA)
    /\ UNCHANGED << try_titles, m_sorted_list, m_bios_count,
                    inputVars, mapVars, builds, sessionVars, syncVars, fgVars, spawned, aborted >>

\* convert shortnames to UCS-4
UcsShortname ==
    /\ ~aborted
    /\ b_pc = "ucs_shortname"
    /\ LET Update(info) == [info EXCEPT !.ucs_shortname = normalize_unicode(catalog[info.driver].name)]
       IN  ListPass(Update, CallNotify(AVAIL_UCS_SHORTNAME))

\* UcsDescription with a loop that stops after its first turn
UcsDescription_OneTurn ==
    /\ ~aborted
    /\ b_pc = "ucs_description"
    /\ m_sorted_list' =
         IF m_sorted_list = <<>> THEN m_sorted_list
         ELSE [m_sorted_list EXCEPT ![1].ucs_description = normalize_unicode(m_sorted_list[1].description)]
    /\ CallNotify(AVAIL_UCS_DESCRIPTION)
    /\ UNCHANGED << try_titles, m_filter_data, m_bios_count,
                    inputVars, mapVars, builds, sessionVars, syncVars, fgVars, spawned, aborted >>

\* convert descriptions to UCS-4
UcsDescription ==
    /\ ~aborted
    /\ b_pc = "ucs_description"
    /\ LET Update(info) == [info EXCEPT !.ucs_description = normalize_unicode(info.description)]
       IN  ListPass(Update, CallNotify(AVAIL_UCS_DESCRIPTION))

\* UcsManufDesc that stores the manufacturer and description in the description itself
UcsManufDesc_InDescription ==
    /\ ~aborted
    /\ b_pc = "ucs_manuf_desc"
    /\ LET Update(info) ==
             [info EXCEPT !.description = ManufacturerAnd(catalog[info.driver], info.description),
                          !.ucs_manufacturer_description =
                             normalize_unicode(ManufacturerAnd(catalog[info.driver], info.description))]
       IN  ListPass(Update, CallNotify(AVAIL_UCS_MANUF_DESC))

\* convert "<manufacturer> <description>" to UCS-4
UcsManufDesc ==
    /\ ~aborted
    /\ b_pc = "ucs_manuf_desc"
    /\ LET Update(info) ==
             [info EXCEPT !.ucs_manufacturer_description =
                normalize_unicode(ManufacturerAnd(catalog[info.driver], info.description))]
       IN  ListPass(Update, CallNotify(AVAIL_UCS_MANUF_DESC))

\* convert default descriptions to UCS-4 (only when titles were loaded)
UcsDfltDesc ==
    /\ ~aborted
    /\ b_pc = "ucs_dflt_desc"
    /\ LET fullname(info) == catalog[info.driver].fullname
           Update(info) ==
             IF info.description # fullname(info)
             THEN [info EXCEPT !.ucs_default_description = normalize_unicode(fullname(info))]
             ELSE info
       IN  IF try_titles
           THEN ListPass(Update, CallNotify(AVAIL_UCS_DFLT_DESC))
           ELSE /\ CallNotify(AVAIL_UCS_DFLT_DESC)
                /\ UNCHANGED << try_titles, dataVars, inputVars, mapVars, builds, sessionVars, syncVars, fgVars, spawned, aborted >>

\* convert "<manufacturer> <default description>" to UCS-4 (only when titles were loaded)
UcsManufDfltDesc ==
    /\ ~aborted
    /\ b_pc = "ucs_manuf_dflt_desc"
    /\ LET fullname(info) == catalog[info.driver].fullname
           Update(info) ==
             IF info.description # fullname(info)
             THEN [info EXCEPT !.ucs_manufacturer_default_description =
                      normalize_unicode(ManufacturerAnd(catalog[info.driver], fullname(info)))]
             ELSE info
       IN  IF try_titles
           THEN ListPass(Update, CallNotify(AVAIL_UCS_MANUF_DFLT_DESC))
           ELSE /\ CallNotify(AVAIL_UCS_MANUF_DFLT_DESC)
                /\ UNCHANGED << try_titles, dataVars, inputVars, mapVars, builds, sessionVars, syncVars, fgVars, spawned, aborted >>

\* notify_available: std::unique_lock<std::mutex> lock(m_mutex)
NotifyLock ==
    /\ ~aborted
    /\ b_pc = "notify_available"
    /\ m_mutex = {}
    /\ m_mutex' = {Builder}
    /\ b_pc' = "notify_locked"
    /\ UNCHANGED << b_x, b_value, try_titles, m_condition, m_thread, m_started, m_available,
                    inputVars, mapVars, builds, sessionVars, dataVars, fgVars, spawned, aborted >>

\* NotifyPublish with a store in place of fetch_or
NotifyPublish_Store ==
    /\ ~aborted
    /\ b_pc = "notify_locked"
    /\ m_available' = b_value
    /\ pc' = [t \in Threads |-> IF t \in m_condition THEN "wa_lock" ELSE pc[t]]
    /\ m_condition' = {}
    /\ m_mutex' = m_mutex \ {Builder}
    /\ b_pc' = AfterNotify(b_value)
    /\ b_value' = AVAIL_NONE
    /\ UNCHANGED << b_x, try_titles, m_thread, m_started, desired, caller,
                    inputVars, mapVars, builds, sessionVars, dataVars, spawned, aborted >>

\* NotifyPublish without notify_all
NotifyPublish_NoNotifyAll ==
    /\ ~aborted
    /\ b_pc = "notify_locked"
    /\ m_available' = m_available \cup b_value
    /\ m_mutex' = m_mutex \ {Builder}
    /\ b_pc' = AfterNotify(b_value)
    /\ b_value' = AVAIL_NONE
    /\ UNCHANGED << b_x, try_titles, m_condition, m_thread, m_started, fgVars,
                    inputVars, mapVars, builds, sessionVars, dataVars, spawned, aborted >>

\* NotifyPublish that wakes the waiters only when the last stage is published
NotifyPublish_WakeAtEnd ==
    /\ ~aborted
    /\ b_pc = "notify_locked"
    /\ m_available' = m_available \cup b_value
    /\ IF m_available' = Stages
       THEN /\ pc' = [t \in Threads |-> IF t \in m_condition THEN "wa_lock" ELSE pc[t]]
            /\ m_condition' = {}
       ELSE UNCHANGED << pc, m_condition >>
    /\ m_mutex' = m_mutex \ {Builder}
    /\ b_pc' = AfterNotify(b_value)
    /\ b_value' = AVAIL_NONE
    /\ UNCHANGED << b_x, try_titles, m_thread, m_started, desired, caller,
                    inputVars, mapVars, builds, sessionVars, dataVars, spawned, aborted >>

\* notify_available: m_available.fetch_or(value), m_condition.notify_all(), unlock on return
NotifyPublish ==
    /\ ~aborted
    /\ b_pc = "notify_locked"
    /\ m_available' = m_available \cup b_value
    /\ pc' = [t \in Threads |-> IF t \in m_condition THEN "wa_lock" ELSE pc[t]]
    /\ m_condition' = {}
    /\ m_mutex' = m_mutex \ {Builder}
    /\ b_pc' = AfterNotify(b_value)
    /\ b_value' = AVAIL_NONE
    /\ UNCHANGED << b_x, try_titles, m_thread, m_started, desired, caller,
                    inputVars, mapVars, builds, sessionVars, dataVars, spawned, aborted >>

BuilderStep ==
    \/ OpenTitles
    \/ PopulateList
    \/ LoadTitles
    \/ FillTitles
    \/ PopulateParents
    \/ EraseEmpty
    \/ SortList
    \/ FinaliseFilters
    \/ UcsShortname
    \/ UcsDescription
    \/ UcsManufDesc
    \/ UcsDfltDesc
    \/ UcsManufDfltDesc
    \/ NotifyLock
    \/ NotifyPublish

\* ------------------------------------------------------------------------
\* Foreground threads
\* ------------------------------------------------------------------------

\* positions inside cache_data and inside reset_cache
InCacheData == {"cd_lock", "cd_check", "cd_spawn"}

InResetCache == {"rc_join", "rc_lock", "rc_clear", "rc_data"}

\* positions inside wait_available
InWait == {"wa_lock", "wa_pred", "wa_blocked"}

\* thread t returns to its caller
Return(t) ==
    /\ pc' = [pc EXCEPT ![t] = "idle"]
    /\ desired' = [desired EXCEPT ![t] = AVAIL_NONE]
    /\ caller' = [caller EXCEPT ![t] = "none"]

\* a call of cache_data; the caller serialises it with reset_cache
CacheDataCall(t) ==
    /\ ~aborted
    /\ pc[t] = "idle"
    /\ \A u \in Threads : pc[u] \notin InResetCache
    /\ pc' = [pc EXCEPT ![t] = "cd_lock"]
    /\ caller' = [caller EXCEPT ![t] = "cache_data"]
    /\ UNCHANGED << desired, inputVars, mapVars, builds, sessionVars, syncVars, dataVars, builderVars, spawned, aborted >>

\* CacheDataLock that does not take the mutex
CacheDataLock_NoMutex(t) ==
    /\ ~aborted
    /\ pc[t] = "cd_lock"
    /\ pc' = [pc EXCEPT ![t] = "cd_check"]
    /\ UNCHANGED << desired, caller, inputVars, mapVars, builds, sessionVars, syncVars, dataVars, builderVars, spawned, aborted >>

\* cache_data: std::unique_lock<std::mutex> lock(m_mutex)
CacheDataLock(t) ==
    /\ ~aborted
    /\ pc[t] = "cd_lock"
    /\ m_mutex = {}
    /\ m_mutex' = {t}
    /\ pc' = [pc EXCEPT ![t] = "cd_check"]
    /\ UNCHANGED << desired, caller, m_condition, m_thread, m_started, m_available,
                    inputVars, mapVars, builds, sessionVars, dataVars, builderVars, spawned, aborted >>

\* CacheDataCheck that waits for the BIOS count of a build that was started
CacheDataCheck_Waits(t) ==
    /\ ~aborted
    /\ pc[t] = "cd_check"
    /\ IF ~m_started
       THEN /\ pc' = [pc EXCEPT ![t] = "cd_spawn"]
            /\ UNCHANGED << m_mutex, desired, caller >>
       ELSE /\ is_available({AVAIL_BIOS_COUNT})
            /\ m_mutex' = m_mutex \ {t}
            /\ Return(t)
    /\ UNCHANGED << m_condition, m_thread, m_started, m_available,
                    inputVars, mapVars, builds, sessionVars, dataVars, builderVars, spawned, aborted >>

\* cache_data: if (!m_started); when a build was started, unlock and return
CacheDataCheck(t) ==
    /\ ~aborted
    /\ pc[t] = "cd_check"
    /\ IF ~m_started
       THEN /\ pc' = [pc EXCEPT ![t] = "cd_spawn"]
            /\ UNCHANGED << m_mutex, desired, caller >>
       ELSE /\ m_mutex' = m_mutex \ {t}
            /\ Return(t)
    /\ UNCHANGED << m_condition, m_thread, m_started, m_available,
                    inputVars, mapVars, builds, sessionVars, dataVars, builderVars, spawned, aborted >>

\* SpawnBuilder that sets m_started and creates no thread
SpawnBuilder_NoThread(t) ==
    /\ ~aborted
    /\ pc[t] = "cd_spawn"
    /\ m_started' = TRUE
    /\ m_mutex' = m_mutex \ {t}
    /\ Return(t)
    /\ UNCHANGED << m_thread, spawned, b_pc, m_condition, m_available, b_x, b_value, try_titles,
                    inputVars, mapVars, sessionVars, dataVars, aborted >>

\* cache_data: m_started = true, m_thread = the new builder thread, unlock and return
SpawnBuilder(t) ==
    /\ ~aborted
    /\ pc[t] = "cd_spawn"
    /\ m_started' = TRUE
    /\ m_thread' = spawned + 1
    /\ spawned' = spawned + 1
    /\ b_pc' = "start"
    /\ m_mutex' = m_mutex \ {t}
    /\ Return(t)
    /\ UNCHANGED << m_condition, m_available, b_x, b_value, try_titles,
                    inputVars, mapVars, sessionVars, dataVars, aborted >>

\* the step that creates the builder thread, the builds not counted
CacheDataSpawn(t) == SpawnBuilder(t) /\ UNCHANGED builds

\* wait_available(want) called from member function fn finds the bits missing: the call that finds
\* them set returns at once and changes nothing.  assert(m_started) either ends the program
\* (assertions enabled) or is compiled out.
wait_available(t, fn, want) ==
    /\ ~aborted
    /\ pc[t] = "idle"
    /\ ~is_available(want)
    /\ \/ /\ ~m_started
          /\ aborted' = TRUE
          /\ UNCHANGED << pc, desired, caller >>
       \/ /\ pc' = [pc EXCEPT ![t] = "wa_lock"]
          /\ desired' = [desired EXCEPT ![t] = want]
          /\ caller' = [caller EXCEPT ![t] = fn]
          /\ UNCHANGED aborted
    /\ UNCHANGED << inputVars, mapVars, builds, sessionVars, syncVars, dataVars, builderVars, spawned >>

\* the masks that callers hand to wait_available directly
DirectWaits ==
    { {AVAIL_UCS_SHORTNAME}, {AVAIL_UCS_MANUF_DFLT_DESC}, {AVAIL_BIOS_COUNT, AVAIL_SORTED_LIST} }

\* a direct call of wait_available
WaitAvailableCall(t) == \E want \in DirectWaits : wait_available(t, "wait_available", want)

\* sorted_list()
sorted_list(t) == wait_available(t, "sorted_list", {AVAIL_SORTED_LIST})

\* bios_count()
bios_count(t) == wait_available(t, "bios_count", {AVAIL_BIOS_COUNT})

\* unavailable_systems()
unavailable_systems(t) == wait_available(t, "unavailable_systems", {AVAIL_SORTED_LIST})

\* filter_data()
filter_data(t) == wait_available(t, "filter_data", {AVAIL_FILTER_DATA})

\* wait_available: std::unique_lock<std::mutex> lock(m_mutex), also when wait() takes the mutex back
WaitLock(t) ==
    /\ ~aborted
    /\ pc[t] = "wa_lock"
    /\ m_mutex = {}
    /\ m_mutex' = {t}
    /\ pc' = [pc EXCEPT ![t] = "wa_pred"]
    /\ UNCHANGED << desired, caller, m_condition, m_thread, m_started, m_available,
                    inputVars, mapVars, builds, sessionVars, dataVars, builderVars, spawned, aborted >>

\* WaitPredicate that polls the predicate with the mutex held
WaitPredicate_Spin(t) ==
    /\ ~aborted
    /\ pc[t] = "wa_pred"
    /\ is_available(desired[t])
    /\ m_mutex' = m_mutex \ {t}
    /\ Return(t)
    /\ UNCHANGED << m_condition, m_thread, m_started, m_available,
                    inputVars, mapVars, builds, sessionVars, dataVars, builderVars, spawned, aborted >>

\* m_condition.wait(lock, predicate): return when the predicate holds, else unlock and block
WaitPredicate(t) ==
    /\ ~aborted
    /\ pc[t] = "wa_pred"
    /\ m_mutex' = m_mutex \ {t}
    /\ IF is_available(desired[t])
       THEN Return(t) /\ UNCHANGED m_condition
       ELSE /\ pc' = [pc EXCEPT ![t] = "wa_blocked"]
            /\ m_condition' = m_condition \cup {t}
            /\ UNCHANGED << desired, caller >>
    /\ UNCHANGED << m_thread, m_started, m_available,
                    inputVars, mapVars, builds, sessionVars, dataVars, builderVars, spawned, aborted >>

\* SpuriousWake of a wait() without predicate: the woken thread returns
SpuriousWake_NoPredicate(t) ==
    /\ ~aborted
    /\ pc[t] = "wa_blocked"
    /\ m_condition' = m_condition \ {t}
    /\ Return(t)
    /\ UNCHANGED << m_mutex, m_thread, m_started, m_available,
                    inputVars, mapVars, builds, sessionVars, dataVars, builderVars, spawned, aborted >>

\* a spurious wake-up of a thread blocked in wait(): it takes the mutex back and tests the predicate
SpuriousWake(t) ==
    /\ ~aborted
    /\ pc[t] = "wa_blocked"
    /\ m_condition' = m_condition \ {t}
    /\ pc' = [pc EXCEPT ![t] = "wa_lock"]
    /\ UNCHANGED << desired, caller, m_mutex, m_thread, m_started, m_available,
                    inputVars, mapVars, builds, sessionVars, dataVars, builderVars, spawned, aborted >>

\* a call of reset_cache; the caller serialises it with cache_data and with other resets
ResetCacheCall(t) ==
    /\ ~aborted
    /\ pc[t] = "idle"
    /\ \A u \in Threads : pc[u] \notin InCacheData \cup InResetCache
    /\ pc' = [pc EXCEPT ![t] = "rc_join"]
    /\ caller' = [caller EXCEPT ![t] = "reset_cache"]
    /\ UNCHANGED << desired, inputVars, mapVars, builds, sessionVars, syncVars, dataVars, builderVars, spawned, aborted >>

\* ResetJoin that does not wait for the builder thread
ResetJoin_NoJoin(t) ==
    /\ ~aborted
    /\ pc[t] = "rc_join"
    /\ pc' = [pc EXCEPT ![t] = "rc_lock"]
    /\ UNCHANGED << desired, caller, inputVars, mapVars, builds, sessionVars, syncVars, dataVars, builderVars, spawned, aborted >>

\* reset_cache: if (m_thread) m_thread->join()
ResetJoin(t) ==
    /\ ~aborted
    /\ pc[t] = "rc_join"
    /\ m_thread # 0 => b_pc = "done"
    /\ pc' = [pc EXCEPT ![t] = "rc_lock"]
    /\ UNCHANGED << desired, caller, inputVars, mapVars, builds, sessionVars, syncVars, dataVars, builderVars, spawned, aborted >>

\* reset_cache: std::unique_lock<std::mutex> lock(m_mutex)
ResetLock(t) ==
    /\ ~aborted
    /\ pc[t] = "rc_lock"
    /\ m_mutex = {}
    /\ m_mutex' = {t}
    /\ pc' = [pc EXCEPT ![t] = "rc_clear"]
    /\ UNCHANGED << desired, caller, m_condition, m_thread, m_started, m_available,
                    inputVars, mapVars, builds, sessionVars, dataVars, builderVars, spawned, aborted >>

\* reset_cache: m_thread.reset(), m_started = false, m_available = AVAIL_NONE
ResetClear(t) ==
    /\ ~aborted
    /\ pc[t] = "rc_clear"
    /\ m_thread' = 0
    /\ m_started' = FALSE
    /\ m_available' = AVAIL_NONE
    /\ b_pc' = "none"
    /\ b_x' = 1
    /\ try_titles' = FALSE
    /\ spawned' = 0
    /\ pc' = [pc EXCEPT ![t] = "rc_data"]
    /\ UNCHANGED << desired, caller, m_mutex, m_condition, b_value,
                    inputVars, mapVars, builds, sessionVars, dataVars, aborted >>

\* ResetData that leaves the list
ResetData_KeepsList(t) ==
    /\ ~aborted
    /\ pc[t] = "rc_data"
    /\ m_filter_data' = machine_filter_data
    /\ m_bios_count' = 0
    /\ m_mutex' = m_mutex \ {t}
    /\ Return(t)
    /\ UNCHANGED << m_condition, m_thread, m_started, m_available, m_sorted_list,
                    inputVars, mapVars, builds, sessionVars, builderVars, spawned, aborted >>

\* ResetData that leaves the BIOS count
ResetData_KeepsCount(t) ==
    /\ ~aborted
    /\ pc[t] = "rc_data"
    /\ m_sorted_list' = <<>>
    /\ m_filter_data' = machine_filter_data
    /\ m_mutex' = m_mutex \ {t}
    /\ Return(t)
    /\ UNCHANGED << m_condition, m_thread, m_started, m_available, m_bios_count,
                    inputVars, mapVars, builds, sessionVars, builderVars, spawned, aborted >>

\* reset_cache: clear the list, the filter data and the BIOS count, unlock and return
ResetData(t) ==
    /\ ~aborted
    /\ pc[t] = "rc_data"
    /\ m_sorted_list' = <<>>
    /\ m_filter_data' = machine_filter_data
    /\ m_bios_count' = 0
    /\ m_mutex' = m_mutex \ {t}
    /\ Return(t)
    /\ UNCHANGED << m_condition, m_thread, m_started, m_available,
                    inputVars, mapVars, builds, sessionVars, builderVars, spawned, aborted >>

ForegroundStep(t) ==
    \/ CacheDataCall(t)
    \/ CacheDataLock(t)
    \/ CacheDataCheck(t)
    \/ CacheDataSpawn(t)
    \/ WaitAvailableCall(t)
    \/ sorted_list(t)
    \/ bios_count(t)
    \/ unavailable_systems(t)
    \/ filter_data(t)
    \/ WaitLock(t)
    \/ WaitPredicate(t)
    \/ SpuriousWake(t)
    \/ ResetCacheCall(t)
    \/ ResetJoin(t)
    \/ ResetLock(t)
    \/ ResetClear(t)
    \/ ResetData(t)

Next ==
    \/ BuilderStep
    \/ \E t \in Threads : ForegroundStep(t)

Spec == Init /\ [][Next]_vars

\* the builder alone, on every catalog and titles file of the bounds
ListSpec == ListInit /\ [][BuilderStep]_vars

\* the steps of thread t with the builds counted: at most MaxBuilds builds are started
RebuildStep(t) ==
    \/ CacheDataCall(t) /\ (m_started \/ builds < MaxBuilds)
    \/ CacheDataLock(t)
    \/ CacheDataCheck(t)
    \/ SpawnBuilder(t) /\ builds' = builds + 1
    \/ WaitAvailableCall(t)
    \/ sorted_list(t)
    \/ bios_count(t)
    \/ unavailable_systems(t)
    \/ filter_data(t)
    \/ WaitLock(t)
    \/ WaitPredicate(t)
    \/ SpuriousWake(t)
    \/ ResetCacheCall(t)
    \/ ResetJoin(t)
    \/ ResetLock(t)
    \/ ResetClear(t)
    \/ ResetData(t)

RebuildNext ==
    \/ BuilderStep
    \/ \E t \in Threads : RebuildStep(t)

\* the cache over its successive lives: builds and resets, with the builds counted
RebuildSpec == Init /\ [][RebuildNext]_vars

\* ------------------------------------------------------------------------
\* ~persistent_data: the destruction of the static instance when the program ends
\* ------------------------------------------------------------------------

\* positions inside ~persistent_data, and after it
InDestructor == {"dt_join", "dt_members", "dt_destroyed"}

\* the program ends and destroys instance(): no thread is inside a member function
DestroyCall(t) ==
    /\ ~aborted
    /\ \A u \in Threads : pc[u] = "idle"
    /\ pc' = [pc EXCEPT ![t] = "dt_join"]
    /\ caller' = [caller EXCEPT ![t] = "~persistent_data"]
    /\ UNCHANGED << desired, inputVars, mapVars, builds, sessionVars, syncVars, dataVars, builderVars, spawned, aborted >>

\* DestroyJoin that does not wait for the builder thread
DestroyJoin_NoJoin(t) ==
    /\ ~aborted
    /\ pc[t] = "dt_join"
    /\ pc' = [pc EXCEPT ![t] = "dt_members"]
    /\ UNCHANGED << desired, caller, inputVars, mapVars, builds, sessionVars, syncVars, dataVars, builderVars, spawned, aborted >>

\* ~persistent_data: if (m_thread) m_thread->join()
DestroyJoin(t) ==
    /\ ~aborted
    /\ pc[t] = "dt_join"
    /\ m_thread # 0 => b_pc = "done"
    /\ pc' = [pc EXCEPT ![t] = "dt_members"]
    /\ UNCHANGED << desired, caller, inputVars, mapVars, builds, sessionVars, syncVars, dataVars, builderVars, spawned, aborted >>

\* the members are destroyed after the body, the last declared first: the filter data and the
\* list release their storage
DestroyMembers(t) ==
    /\ ~aborted
    /\ pc[t] = "dt_members"
    /\ m_sorted_list' = <<>>
    /\ m_filter_data' = machine_filter_data
    /\ pc' = [pc EXCEPT ![t] = "dt_destroyed"]
    /\ UNCHANGED << desired, caller, m_bios_count, inputVars, mapVars, builds, sessionVars, syncVars,
                    builderVars, spawned, aborted >>

\* the steps of ~persistent_data
DestroyStep(t) ==
    \/ DestroyCall(t)
    \/ DestroyJoin(t)
    \/ DestroyMembers(t)

\* no thread has begun the destruction of the cache
NotDestroying == \A u \in Threads : pc[u] \notin InDestructor

TeardownNext ==
    \/ BuilderStep
    \/ \E t \in Threads : NotDestroying /\ ForegroundStep(t)
    \/ \E t \in Threads : DestroyStep(t)

\* the cache until its destruction: builds, waits and resets, then ~persistent_data
TeardownSpec == Init /\ [][TeardownNext]_vars

\* ------------------------------------------------------------------------
\* The selection menu: menu_select_game
\* ------------------------------------------------------------------------

\* the score 1.0, the worst; the scores of the model are multiples of 1/ScoreOne
ScoreOne == 60

\* the search texts that are typed: "B", "x" and "M Aa"
Queries == { <<66>>, <<120>>, <<77, 32, 65, 97>> }

\* the sets of short names that the availability file or the audit of the media finds present
AvailableSets == { {}, {<<97>>, <<98>>, <<99>>} }

\* the filter types that are made current
FilterTypes == { "FIRST", "FAVORITE" }

Min2(x, y) == IF y < x THEN y ELSE x

\* a row of the table of edit distances: the distances from a prefix of the first string, that
\* ends with the character c, to every prefix of b, from the row before
RECURSIVE edit_row(_, _, _, _)
edit_row(prev, c, b, row) ==
    IF Len(row) = Len(prev) THEN row
    ELSE LET j == Len(row)
             cost == IF b[j] = c THEN 0 ELSE 1
         IN  edit_row(prev, c, b,
                      Append(row, Min2(Min2(prev[j + 1] + 1, row[j] + 1), prev[j] + cost)))

\* the rows of the table for the first k characters of a
RECURSIVE edit_rows(_, _, _)
edit_rows(a, b, k) ==
    IF k = 0 THEN [ j \in 1..(Len(b) + 1) |-> j - 1 ]
    ELSE LET prev == edit_rows(a, b, k - 1)
         IN  edit_row(prev, a[k], b, << prev[1] + 1 >>)

\* util::edit_distance: the number of insertions, deletions and substitutions that turn one
\* string into the other, as a part of the length of the longer one: 0 for equal strings,
\* ScoreOne at most
edit_distance(lhs, rhs) ==
    LET longer == IF Len(lhs) < Len(rhs) THEN Len(rhs) ELSE Len(lhs)
    IN  IF longer = 0 THEN 0
        ELSE (edit_rows(lhs, rhs, Len(lhs))[Len(rhs) + 1] * ScoreOne) \div longer

\* the stages that populate_search tests, in the order of its tests
SearchStages ==
    << AVAIL_UCS_SHORTNAME, AVAIL_UCS_DESCRIPTION, AVAIL_UCS_MANUF_DESC, AVAIL_UCS_DFLT_DESC,
       AVAIL_UCS_MANUF_DFLT_DESC >>

\* populate_search: the score of entry sys for the normalised search text, the body of its loop
\* over m_searchlist
search_score(ucs_search, sys, fields) ==
    LET shortname ==
            IF AVAIL_UCS_SHORTNAME \in fields
            THEN edit_distance(ucs_search, sys.ucs_shortname)
            ELSE ScoreOne
        reading ==
            IF shortname # 0 /\ sys.ucs_reading_description # <<>>
            THEN LET first == Min2(edit_distance(ucs_search, sys.ucs_reading_description), shortname)
                 IN  IF first # 0
                     THEN Min2(edit_distance(ucs_search, sys.ucs_manufacturer_reading_description), first)
                     ELSE first
            ELSE shortname
        description ==
            IF reading # 0 /\ AVAIL_UCS_DESCRIPTION \in fields
            THEN Min2(edit_distance(ucs_search, sys.ucs_description), reading)
            ELSE reading
        manuf_desc ==
            IF description # 0 /\ AVAIL_UCS_MANUF_DESC \in fields
            THEN Min2(edit_distance(ucs_search, sys.ucs_manufacturer_description), description)
            ELSE description
    IN  IF manuf_desc # 0 /\ AVAIL_UCS_DFLT_DESC \in fields /\ sys.ucs_default_description # <<>>
        THEN LET first == Min2(edit_distance(ucs_search, sys.ucs_default_description), manuf_desc)
             IN  IF first # 0 /\ AVAIL_UCS_MANUF_DFLT_DESC \in fields
                 THEN Min2(edit_distance(ucs_search, sys.ucs_manufacturer_default_description), first)
                 ELSE first
        ELSE manuf_desc

\* insertion of val into the sorted candidates: it moves left past every candidate with a higher score
RECURSIVE score_insert(_, _)
score_insert(sorted, val) ==
    IF sorted = <<>> THEN <<val>>
    ELSE IF val.first < sorted[Len(sorted)].first
         THEN Append(score_insert(SubSeq(sorted, 1, Len(sorted) - 1), val), sorted[Len(sorted)])
         ELSE Append(sorted, val)

\* std::stable_sort of m_searchlist with lhs.first < rhs.first
RECURSIVE score_sort(_)
score_sort(list) ==
    IF list = <<>> THEN list
    ELSE score_insert(score_sort(SubSeq(list, 1, Len(list) - 1)), list[Len(list)])

\* the state of the cache and of the other threads, which the steps of the menu leave alone
\* unless they name it
cacheVars == << inputVars, mapVars, builds, syncVars, builderVars, fgVars, spawned, aborted >>

\* no menu exists and no reset_cache is pending or under way
NoMenu ==
    \/ s_pc = "none"
    \/ s_pc = "exit" /\ ~m_started /\ \A t \in Threads : pc[t] = "idle"

\* Construct whose cache_data() never creates a builder
Construct_NoCacheData ==
    /\ ~aborted
    /\ NoMenu
    /\ m_mutex = {}
    /\ s_pc' = "load_available_machines"
    /\ s_x' = 1
    /\ m_search' = <<>>
    /\ m_searchlist' = <<>>
    /\ m_searched_fields' = AVAIL_NONE
    /\ UNCHANGED << cacheVars, dataVars >>

\* menu_select_game(): the members are initialised and cache_data() creates the builder thread
\* unless a build was started; at most MaxBuilds builders are followed
Construct ==
    /\ ~aborted
    /\ NoMenu
    /\ m_mutex = {}
    /\ IF m_started
       THEN UNCHANGED << m_started, m_thread, spawned, b_pc, builds >>
       ELSE /\ builds < MaxBuilds
            /\ m_started' = TRUE
            /\ m_thread' = spawned + 1
            /\ spawned' = spawned + 1
            /\ b_pc' = "start"
            /\ builds' = builds + 1
    /\ s_pc' = "load_available_machines"
    /\ s_x' = 1
    /\ m_search' = <<>>
    /\ m_searchlist' = <<>>
    /\ m_searched_fields' = AVAIL_NONE
    /\ UNCHANGED << inputVars, mapVars, m_mutex, m_condition, m_available, b_x, b_value, try_titles,
                    fgVars, aborted, dataVars >>

\* load_available_machines(): without a file of the right version it returns false; else it sets
\* the available flag of every entry of sorted_list() from the names in the file
load_available_machines ==
    /\ ~aborted
    /\ s_pc = "load_available_machines"
    /\ \/ /\ s_pc' = "build_available_list"
          /\ UNCHANGED m_sorted_list
       \/ /\ is_available({AVAIL_SORTED_LIST})
          /\ \E available \in AvailableSets :
               m_sorted_list' =
                   [ i \in 1..Len(m_sorted_list) |->
                       [ m_sorted_list[i] EXCEPT
                           !.available = catalog[m_sorted_list[i].driver].name \in available ] ]
          /\ s_pc' = "load_filters"
    /\ UNCHANGED << cacheVars, m_filter_data, m_bios_count, s_x, m_search, m_searchlist, m_searched_fields >>

build_available_list_KeepAvailable ==
    /\ ~aborted
    /\ s_pc = "build_available_list"
    /\ is_available({AVAIL_SORTED_LIST})
    /\ \E available \in AvailableSets :
         LET included == [ x \in 1..driver_list_total |-> catalog[x].name \in available ]
         IN  m_sorted_list' =
                 SelectSeq([ i \in 1..Len(m_sorted_list) |->
                               [ m_sorted_list[i] EXCEPT !.available = included[m_sorted_list[i].index] ] ],
                           LAMBDA info : info.available)
    /\ s_pc' = "load_filters"
    /\ UNCHANGED << cacheVars, m_filter_data, m_bios_count, s_x, m_search, m_searchlist, m_searched_fields >>

\* build_available_list(): it sets the available flag of every entry of sorted_list() from the
\* media it finds, included[info.index]
build_available_list ==
    /\ ~aborted
    /\ s_pc = "build_available_list"
    /\ is_available({AVAIL_SORTED_LIST})
    /\ \E available \in AvailableSets :
         LET included == [ x \in 1..driver_list_total |-> catalog[x].name \in available ]
         IN  m_sorted_list' =
                 [ i \in 1..Len(m_sorted_list) |->
                     [ m_sorted_list[i] EXCEPT !.available = included[m_sorted_list[i].index] ] ]
    /\ s_pc' = "load_filters"
    /\ UNCHANGED << cacheVars, m_filter_data, m_bios_count, s_x, m_search, m_searchlist, m_searched_fields >>

\* the rest of the constructor: filter_data().load_ini(file) with the last used filter, then
\* load_custom_filters()
load_filters ==
    /\ ~aborted
    /\ s_pc = "load_filters"
    /\ is_available({AVAIL_FILTER_DATA})
    /\ \E type \in FilterTypes : m_filter_data' = [m_filter_data EXCEPT !.current_filter_type = type]
    /\ s_pc' = "idle"
    /\ UNCHANGED << cacheVars, m_sorted_list, m_bios_count, s_x, m_search, m_searchlist, m_searched_fields >>

\* filter_selected(): filter_data().set_current_filter_type(new_type)
filter_selected ==
    /\ ~aborted
    /\ s_pc = "idle"
    /\ is_available({AVAIL_FILTER_DATA})
    /\ \E new_type \in FilterTypes :
         m_filter_data' = [m_filter_data EXCEPT !.current_filter_type = new_type]
    /\ UNCHANGED << cacheVars, m_sorted_list, m_bios_count, sessionVars >>

\* populate(), with the search text that was typed since it was last called: the favourites
\* clear the text; a text that is not empty goes to populate_search()
populate ==
    /\ ~aborted
    /\ s_pc = "idle"
    /\ is_available({AVAIL_FILTER_DATA})
    /\ \E text \in Queries \cup {<<>>} :
         IF m_filter_data.current_filter_type = "FAVORITE"
         THEN m_search' = <<>> /\ UNCHANGED s_pc
         ELSE /\ m_search' = text
              /\ s_pc' = IF text # <<>> THEN "populate_search" ELSE s_pc
    /\ UNCHANGED << cacheVars, dataVars, s_x, m_searchlist, m_searched_fields >>

\* populate_search: if (m_searchlist.empty()), a candidate with score 1.0 for every entry of sorted_list()
SearchList ==
    /\ ~aborted
    /\ s_pc = "populate_search"
    /\ IF m_searchlist = <<>>
       THEN /\ is_available({AVAIL_SORTED_LIST})
            /\ m_searchlist' = [ i \in 1..Len(m_sorted_list) |-> [first |-> ScoreOne, second |-> i] ]
       ELSE UNCHANGED m_searchlist
    /\ s_pc' = "searched_fields"
    /\ s_x' = 1
    /\ UNCHANGED << cacheVars, dataVars, m_search, m_searched_fields >>

SearchedFields_Unconditional ==
    /\ ~aborted
    /\ s_pc = "searched_fields"
    /\ m_searched_fields' = m_searched_fields \cup {SearchStages[s_x]}
    /\ IF s_x < Len(SearchStages)
       THEN s_x' = s_x + 1 /\ UNCHANGED s_pc
       ELSE s_x' = 1 /\ s_pc' = "score"
    /\ UNCHANGED << cacheVars, dataVars, m_search, m_searchlist >>

\* populate_search: if (is_available(stage)) m_searched_fields |= stage, for one of the five stages
SearchedFields ==
    /\ ~aborted
    /\ s_pc = "searched_fields"
    /\ m_searched_fields' =
         IF is_available({SearchStages[s_x]})
         THEN m_searched_fields \cup {SearchStages[s_x]}
         ELSE m_searched_fields
    /\ IF s_x < Len(SearchStages)
       THEN s_x' = s_x + 1 /\ UNCHANGED s_pc
       ELSE s_x' = 1 /\ s_pc' = "score"
    /\ UNCHANGED << cacheVars, dataVars, m_search, m_searchlist >>

candidate_score_NoNormalize(k) ==
    search_score(m_search, m_sorted_list[m_searchlist[k].second], m_searched_fields)

\* populate_search: the score that the loop over m_searchlist gives to candidate k
candidate_score(k) ==
    search_score(normalize_unicode(m_search), m_sorted_list[m_searchlist[k].second], m_searched_fields)

\* populate_search: one turn of the loop over m_searchlist, which leaves the score first in
\* the candidate
score_candidate(first) ==
    /\ ~aborted
    /\ s_pc = "score"
    /\ m_searchlist' =
         IF m_searchlist = <<>> THEN m_searchlist ELSE [m_searchlist EXCEPT ![s_x].first = first]
    /\ IF s_x < Len(m_searchlist)
       THEN s_x' = s_x + 1 /\ UNCHANGED s_pc
       ELSE s_x' = 1 /\ s_pc' = "sort"
    /\ UNCHANGED << cacheVars, dataVars, m_search, m_searched_fields >>

\* populate_search: the turn of the loop for candidate s_x
SearchScore ==
    /\ s_pc = "score"
    /\ \E first \in { IF m_searchlist = <<>> THEN ScoreOne ELSE candidate_score(s_x) } :
          score_candidate(first)

SearchSort_NoSort ==
    /\ ~aborted
    /\ s_pc = "sort"
    /\ m_searchlist' = m_searchlist
    /\ s_pc' = "idle"
    /\ UNCHANGED << cacheVars, dataVars, s_x, m_search, m_searched_fields >>

\* populate_search: std::stable_sort by score, and return
SearchSort ==
    /\ ~aborted
    /\ s_pc = "sort"
    /\ m_searchlist' = score_sort(m_searchlist)
    /\ s_pc' = "idle"
    /\ UNCHANGED << cacheVars, dataVars, s_x, m_search, m_searched_fields >>

\* handle() with ui_globals::reset set: a cache_reset becomes session data of the UI, a hard
\* reset is scheduled and stack_reset() takes the menu off the stack
HandleReset ==
    /\ ~aborted
    /\ s_pc = "idle"
    /\ s_pc' = "stack_reset"
    /\ UNCHANGED << cacheVars, dataVars, s_x, m_search, m_searchlist, m_searched_fields >>

\* ~menu_select_game(): filter_data().get_config_string(), then the members are destroyed; the
\* menu that stack_reset() took off the stack is released before the session data of the UI
Destruct ==
    /\ ~aborted
    /\ s_pc \in {"idle", "stack_reset"}
    /\ is_available({AVAIL_FILTER_DATA})
    /\ s_pc' = IF s_pc = "idle" THEN "none" ELSE "exit"
    /\ s_x' = 1
    /\ m_search' = <<>>
    /\ m_searchlist' = <<>>
    /\ m_searched_fields' = AVAIL_NONE
    /\ UNCHANGED << cacheVars, dataVars >>

\* the steps of populate_search
SearchStep ==
    \/ SearchList
    \/ SearchedFields
    \/ SearchScore
    \/ SearchSort

\* ~cache_reset(), when the session data of the UI are destroyed: reset_cache(), run by the
\* first thread
SessionReset ==
    /\ s_pc = "exit"
    /\ \/ m_started /\ ResetCacheCall(1)
       \/ ResetJoin(1)
       \/ ResetLock(1)
       \/ ResetClear(1)
       \/ ResetData(1)

\* the steps of the thread that runs the menu
SessionStep ==
    \/ Construct
    \/ load_available_machines
    \/ build_available_list
    \/ load_filters
    \/ filter_selected
    \/ populate
    \/ SearchStep
    \/ HandleReset
    \/ Destruct
    \/ SessionReset

\* the first menu_select_game is under construction: its cache_data() has created the builder
SessionInit ==
    /\ catalog = Catalog0
    /\ titles = Titles0
    /\ m_mutex = {}
    /\ m_condition = {}
    /\ m_thread = 1
    /\ m_started = TRUE
    /\ m_available = AVAIL_NONE
    /\ m_sorted_list = <<>>
    /\ m_filter_data = machine_filter_data
    /\ m_bios_count = 0
    /\ b_pc = "start"
    /\ b_x = 1
    /\ b_value = AVAIL_NONE
    /\ try_titles = FALSE
    /\ pc = [t \in Threads |-> "idle"]
    /\ desired = [t \in Threads |-> AVAIL_NONE]
    /\ caller = [t \in Threads |-> "none"]
    /\ spawned = 1
    /\ aborted = FALSE
    /\ builds = 1
    /\ s_pc = "load_available_machines"
    /\ s_x = 1
    /\ m_search = <<>>
    /\ m_searchlist = <<>>
    /\ m_searched_fields = AVAIL_NONE
    /\ NoInputMenu

SessionNext ==
    \/ BuilderStep
    \/ SessionStep

\* the builder and the thread of the menu
SessionSpec == SessionInit /\ [][SessionNext]_vars

\* ------------------------------------------------------------------------
\* Scheduling
\* ------------------------------------------------------------------------

\* a thread inside a member function goes on running; a thread that asks for the mutex gets it
\* once it is free often enough.  Calls and spurious wake-ups are never forced.
ForegroundFair ==
    \A t \in Threads :
        /\ SF_vars(CacheDataLock(t))
        /\ WF_vars(CacheDataCheck(t))
        /\ WF_vars(CacheDataSpawn(t))
        /\ SF_vars(WaitLock(t))
        /\ WF_vars(WaitPredicate(t))
        /\ WF_vars(ResetJoin(t))
        /\ SF_vars(ResetLock(t))
        /\ WF_vars(ResetClear(t))
        /\ WF_vars(ResetData(t))

\* a foreground thread that holds the mutex goes on to release it
HoldersFair ==
    \A t \in Threads :
        /\ WF_vars(CacheDataCheck(t))
        /\ WF_vars(CacheDataSpawn(t))
        /\ WF_vars(WaitPredicate(t))
        /\ WF_vars(ResetClear(t))
        /\ WF_vars(ResetData(t))

\* the builder's passes
PassStep ==
    \/ OpenTitles
    \/ PopulateList
    \/ LoadTitles
    \/ FillTitles
    \/ PopulateParents
    \/ EraseEmpty
    \/ SortList
    \/ FinaliseFilters
    \/ UcsShortname
    \/ UcsDescription
    \/ UcsManufDesc
    \/ UcsDfltDesc
    \/ UcsManufDfltDesc

\* the builder thread goes on running
BuilderFair ==
    /\ WF_vars(PassStep)
    /\ SF_vars(NotifyLock)
    /\ WF_vars(NotifyPublish)

\* every thread is scheduled
LiveSpec == Init /\ [][Next]_vars /\ ForegroundFair /\ BuilderFair

\* the builder is scheduled; of the foreground threads only the holders of the mutex are
BuilderSpec == Init /\ [][Next]_vars /\ HoldersFair /\ BuilderFair

\* the foreground threads are scheduled; the builder only while it holds the mutex
ForegroundSpec == Init /\ [][Next]_vars /\ ForegroundFair /\ WF_vars(NotifyPublish)


\* ------------------------------------------------------------------------
\* Properties of the cache
\* ------------------------------------------------------------------------

\* thread t leaves the position at in this step
Leaves(t, at) == pc[t] = at /\ pc'[t] # at

\* some thread is inside reset_cache
ResetInProgress == \E u \in Threads : pc[u] \in InResetCache

\* the step of reset_cache that stores AVAIL_NONE
ResetClears == \E t \in Threads : Leaves(t, "rc_clear")

\* C1: between two resets the calls of cache_data, sequential or concurrent, create one builder
\* thread: the call that finds m_started false sets it and creates the thread, a call that finds
\* it true leaves m_thread and the builder alone, and never are two threads created.
C1_OneBuilder ==
    [][ /\ spawned' <= 1
        /\ m_started' <=> (spawned' = 1)
        /\ m_thread' = spawned'
        /\ \A t \in Threads :
             /\ Leaves(t, "cd_spawn") => ~m_started /\ m_started' /\ spawned' = 1 /\ b_pc' = "start"
             /\ Leaves(t, "cd_check") /\ m_started =>
                  /\ pc'[t] = "idle"
                  /\ UNCHANGED << m_thread, m_started, spawned, builderVars >> ]_vars

\* a call of cache_data finds the build started while the builder is running
C1_Witness ==
    \E t \in Threads :
        /\ pc[t] = "cd_check"
        /\ m_started
        /\ spawned = 1
        /\ b_pc \notin {"none", "done"}

\* C2: a stage that is available stays available until reset_cache stores AVAIL_NONE; no other
\* step clears a bit of the mask.
C2_StageMonotonic ==
    [][ \A s \in Stages : is_available({s}) /\ ~ResetClears => is_available({s})' ]_vars

\* some stages are published and the builder goes on publishing
C2_Witness ==
    /\ is_available({AVAIL_BIOS_COUNT, AVAIL_SORTED_LIST})
    /\ b_pc = "notify_locked"

\* the order in which do_cache_data is said to publish the stages
PublishOrder ==
    << AVAIL_BIOS_COUNT, AVAIL_SORTED_LIST, AVAIL_FILTER_DATA, AVAIL_UCS_SHORTNAME,
       AVAIL_UCS_DESCRIPTION, AVAIL_UCS_MANUF_DESC, AVAIL_UCS_DFLT_DESC, AVAIL_UCS_MANUF_DFLT_DESC >>

\* C3: the mask is a prefix of the publication order: no stage is set while an earlier one is clear.
C3_PrefixOrder ==
    \E n \in 0..Len(PublishOrder) : m_available = { PublishOrder[i] : i \in 1..n }

\* the normalised short names are published, the normalised descriptions are not yet
C3_Witness ==
    m_available = { AVAIL_BIOS_COUNT, AVAIL_SORTED_LIST, AVAIL_FILTER_DATA, AVAIL_UCS_SHORTNAME }

\* the number of BIOS roots of the catalog, the placeholder left out
BiosRoots == Cardinality({ i \in 1..Len(catalog) : catalog[i].name # EmptyName /\ catalog[i].is_bios_root })

\* the drivers of the catalog other than the placeholder
RealDrivers == { i \in 1..Len(catalog) : catalog[i].name # EmptyName }

\* the list holds every real driver once, no placeholder, descriptions and parents filled, in display order
SortedListWritten ==
    /\ Len(m_sorted_list) = Cardinality(RealDrivers)
    /\ { m_sorted_list[i].driver : i \in 1..Len(m_sorted_list) } = RealDrivers
    /\ \A i \in 1..Len(m_sorted_list) :
         /\ m_sorted_list[i].description # <<>>
         /\ HasParent(catalog[m_sorted_list[i].driver]) => m_sorted_list[i].parent # <<>>
    /\ \A i \in 1..(Len(m_sorted_list) - 1) : ~sort_compare(m_sorted_list[i + 1], m_sorted_list[i])

\* the filter data hold every manufacturer and year and are finalised
FilterDataWritten ==
    /\ m_filter_data.finalised
    /\ m_filter_data.manufacturers = { catalog[i].manufacturer : i \in RealDrivers }
    /\ m_filter_data.years = { catalog[i].year : i \in RealDrivers }

\* has the entry a default description that differs from its description
HasDefault(info) == try_titles /\ info.description # catalog[info.driver].fullname

\* the normalised field that stage s guards is computed in every entry
UcsWritten(s) ==
    \A i \in 1..Len(m_sorted_list) :
        LET info == m_sorted_list[i]
            driver == catalog[info.driver]
        IN  /\ s = AVAIL_UCS_SHORTNAME => info.ucs_shortname = normalize_unicode(driver.name)
            /\ s = AVAIL_UCS_DESCRIPTION => info.ucs_description = normalize_unicode(info.description)
            /\ s = AVAIL_UCS_MANUF_DESC =>
                 info.ucs_manufacturer_description =
                     normalize_unicode(driver.manufacturer \o <<32>> \o info.description)
            /\ s = AVAIL_UCS_DFLT_DESC /\ HasDefault(info) =>
                 info.ucs_default_description = normalize_unicode(driver.fullname)
            /\ s = AVAIL_UCS_MANUF_DFLT_DESC /\ HasDefault(info) =>
                 info.ucs_manufacturer_default_description =
                     normalize_unicode(driver.manufacturer \o <<32>> \o driver.fullname)

\* C4: a stage whose bit is set has all its data written: the BIOS tally is complete, the list is
\* whole and in display order, the filter data are finalised, the normalised field is computed in
\* every entry.
C4_BitImpliesWritten ==
    /\ is_available({AVAIL_BIOS_COUNT}) => m_bios_count = BiosRoots
    /\ is_available({AVAIL_SORTED_LIST}) => SortedListWritten
    /\ is_available({AVAIL_FILTER_DATA}) => FilterDataWritten
    /\ \A s \in Stages \ {AVAIL_BIOS_COUNT, AVAIL_SORTED_LIST, AVAIL_FILTER_DATA} :
         is_available({s}) => UcsWritten(s)

\* a reader sees the normalised short names published while the description pass is half done
C4_Witness ==
    \E t \in Threads :
        /\ pc[t] = "wa_pred"
        /\ desired[t] = {AVAIL_UCS_SHORTNAME}
        /\ is_available(desired[t])
        /\ b_pc = "ucs_description"
        /\ b_x > 1

\* the stage each accessor is said to wait for
Prerequisite(fn) ==
    IF fn \in {"sorted_list", "unavailable_systems"} THEN {AVAIL_SORTED_LIST}
    ELSE IF fn = "bios_count" THEN {AVAIL_BIOS_COUNT}
    ELSE IF fn = "filter_data" THEN {AVAIL_FILTER_DATA}
    ELSE AVAIL_NONE

\* C5: a thread leaves wait_available(S) only by a step that finds every bit of S set, and an
\* accessor only when its prerequisite stage is set; a woken thread tests the predicate again.
C5_ReturnsWhenAvailable ==
    [][ \A t \in Threads :
          pc[t] \in InWait /\ pc'[t] = "idle" =>
              /\ is_available(desired[t])
              /\ is_available(Prerequisite(caller[t])) ]_vars

\* sorted_list() is about to return: it holds the mutex and finds its stage set
C5_Witness ==
    \E t \in Threads :
        /\ pc[t] = "wa_pred"
        /\ caller[t] = "sorted_list"
        /\ is_available({AVAIL_SORTED_LIST})

\* C6: with every thread scheduled, a thread inside wait_available on a started build returns,
\* unless a reset_cache intervenes (or an assertion ended the program).
C6_NoLostWakeup ==
    \A t \in Threads :
        (pc[t] \in InWait /\ m_started) ~> (pc[t] = "idle" \/ ResetInProgress \/ aborted)

\* a waiter holds the mutex and finds its stage missing while the builder stands ready to publish it
C6_Witness ==
    \E t \in Threads :
        /\ pc[t] = "wa_pred"
        /\ b_pc = "notify_available"
        /\ b_value = desired[t]
        /\ ~is_available(desired[t])

\* C7: with the builder scheduled and the foreground threads scheduled only while they hold the
\* mutex, a builder that exists runs to its end with all eight stages published.
C7_BuilderFinishes ==
    (b_pc \notin {"none", "done"}) ~> (b_pc = "done" /\ m_available = Stages)

\* the builder is done on the titles path although a waiter never got to run
C7_Witness ==
    /\ b_pc = "done"
    /\ try_titles
    /\ m_available = Stages
    /\ \E t \in Threads : pc[t] = "wa_lock" /\ desired[t] = {AVAIL_UCS_SHORTNAME}

\* C8: with the foreground threads scheduled and the builder scheduled only while it holds the
\* mutex, no thread stays blocked for a stage that is published, and a thread inside
\* wait_available whose stage is published returns whatever becomes of the later stages.
C8_EarlyRelease ==
    /\ [](\A t \in m_condition : ~is_available(desired[t]))
    /\ \A t \in Threads :
         (pc[t] \in InWait /\ is_available(desired[t])) ~> (pc[t] = "idle" \/ ResetInProgress \/ aborted)

\* a waiter for the normalised short names finds them published, the normalised descriptions are not
C8_Witness ==
    \E t \in Threads :
        /\ pc[t] = "wa_pred"
        /\ desired[t] = {AVAIL_UCS_SHORTNAME}
        /\ is_available(desired[t])
        /\ ~is_available({AVAIL_UCS_DESCRIPTION})

\* C9: with the foreground threads scheduled and the builder scheduled only while it holds the
\* mutex, every call of cache_data returns: it waits for the mutex alone, never for a stage.
C9_CacheDataReturns ==
    \A t \in Threads : (pc[t] \in InCacheData) ~> (pc[t] = "idle" \/ aborted)

\* cache_data is called while the builder is at work and another thread is blocked for a stage
C9_Witness ==
    \E t, u \in Threads :
        /\ pc[t] \in InCacheData
        /\ pc[u] = "wa_blocked"
        /\ b_pc \notin {"none", "done"}
        /\ m_available = AVAIL_NONE

\* C10: when reset_cache returns there is no builder thread, m_started is false, no stage is
\* available, the list is empty, the filter data are fresh and the BIOS count is 0; the cache_data
\* call that then finds m_started false goes on to create a builder.
C10_ResetState ==
    [][ \A t \in Threads :
          /\ Leaves(t, "rc_data") =>
               /\ pc'[t] = "idle"
               /\ m_thread' = 0
               /\ b_pc' = "none"
               /\ ~m_started'
               /\ m_available' = AVAIL_NONE
               /\ m_sorted_list' = <<>>
               /\ m_filter_data' = machine_filter_data
               /\ m_bios_count' = 0
          /\ Leaves(t, "cd_check") /\ ~m_started => pc'[t] = "cd_spawn" ]_vars

\* reset_cache has joined a finished builder and cleared the mask, the data are still to be cleared
C10_Witness ==
    \E t \in Threads :
        /\ pc[t] = "rc_data"
        /\ m_available = AVAIL_NONE
        /\ Len(m_sorted_list) > 0
        /\ m_bios_count > 0
        /\ m_filter_data.finalised

\* the builder thread exists and has not returned from do_cache_data
BuilderRunning == b_pc \notin {"none", "done"}

\* the positions of reset_cache after the join
PastJoin == {"rc_lock", "rc_clear", "rc_data"}

\* C11: reset_cache clears nothing while the builder runs: past its join the builder, if there
\* was one, has returned with all stages published, and stays so until the mask and the data are
\* cleared; no stage is then set over a cleared list, and no stage is clear over a running builder
\* of the life before.
C11_ResetAfterJoin ==
    /\ \A t \in Threads : pc[t] \in PastJoin => ~BuilderRunning
    /\ \A t \in Threads : pc[t] \in {"rc_lock", "rc_clear"} /\ m_thread # 0 =>
            b_pc = "done" /\ m_available = Stages
    /\ \A t \in Threads : pc[t] = "rc_data" => m_available = AVAIL_NONE /\ m_thread = 0
    /\ BuilderRunning => m_started /\ m_thread # 0
    /\ is_available({AVAIL_SORTED_LIST}) => m_sorted_list # <<>>

\* reset_cache has joined a builder that published every stage; a woken waiter has still to return
C11_Witness ==
    \E t, u \in Threads :
        /\ pc[t] = "rc_lock"
        /\ m_thread # 0
        /\ b_pc = "done"
        /\ m_available = Stages
        /\ pc[u] = "wa_lock"

\* populate_list(copydesc) run on an empty list
populate_list(copydesc) == [x \in 1..driver_list_total |-> populate_entry(x, copydesc)]

\* the loop of load_titles over the first k lines of the file
RECURSIVE load_titles_lines(_, _, _)
load_titles_lines(list, file, k) ==
    IF k = 0 THEN list
    ELSE LET before == load_titles_lines(list, file, k - 1)
             readbuf == file[k]
             eoln == title_eoln(readbuf)
             split == title_tab(readbuf, 1, eoln)
             found == title_found(before, readbuf, split)
             descend == title_tab(readbuf, split + 1, eoln)
             readend == title_tab(readbuf, descend + 1, eoln)
         IN  load_title_line(before, readbuf, eoln, split, found, descend, readend)

\* load_titles(file) run on list
load_titles(list, file) ==
    LET loaded == load_titles_lines(list, file, Len(file))
    IN  [i \in 1..Len(loaded) |-> fill_description(loaded[i])]

\* populate_parents() run on list
populate_parents(list) == [i \in 1..Len(list) |-> populate_parent(list, list[i])]

\* the list do_cache_data publishes with SORTED_LIST when started on an empty cache
BuildList(file, with_titles) ==
    LET full == IF with_titles
                THEN populate_parents(load_titles(populate_list(FALSE), file))
                ELSE populate_list(TRUE)
    IN  stable_sort(erase(full, driver_list_find(EmptyName)))

\* an entry without the normalised fields that do_cache_data computes after SORTED_LIST
BeforeUcs(info) ==
    [info EXCEPT !.ucs_shortname = <<>>, !.ucs_description = <<>>,
                 !.ucs_manufacturer_description = <<>>,
                 !.ucs_default_description = <<>>,
                 !.ucs_manufacturer_default_description = <<>>]

\* C12: every build, the first and the one after a reset_cache, publishes the list, the BIOS count
\* and the filter sets that a build started on an empty cache computes from the catalog and the
\* titles file: same entries, order, descriptions, parents and clone flags, and nothing of the
\* build before is left in them.
C12_RebuildSame ==
    /\ is_available({AVAIL_BIOS_COUNT}) =>
          /\ m_bios_count = BiosRoots
          /\ m_filter_data.manufacturers = { catalog[i].manufacturer : i \in RealDrivers }
          /\ m_filter_data.years = { catalog[i].year : i \in RealDrivers }
    /\ is_available({AVAIL_SORTED_LIST}) =>
          [i \in 1..Len(m_sorted_list) |-> BeforeUcs(m_sorted_list[i])] = BuildList(titles, try_titles)

\* the second build, with titles, has published its list
C12_Witness ==
    /\ builds = 2
    /\ try_titles
    /\ is_available({AVAIL_SORTED_LIST})
    /\ m_bios_count > 0

\* the positions of the list that hold driver d
PositionsOf(d) == { i \in 1..Len(m_sorted_list) : m_sorted_list[i].driver = d }

\* C13: built without titles file, the published list has as many entries as the catalog has
\* records other than the placeholder: every such record is in it once, the placeholder is not.
C13_ExactlyN ==
    is_available({AVAIL_SORTED_LIST}) /\ ~try_titles =>
        /\ Len(m_sorted_list) = Cardinality(RealDrivers)
        /\ \A d \in RealDrivers : Cardinality(PositionsOf(d)) = 1
        /\ PositionsOf(driver_list_find(EmptyName)) = {}
        /\ \A i \in 1..Len(m_sorted_list) : catalog[m_sorted_list[i].driver].name # EmptyName

\* a list of MaxSystems entries is published, built without titles from a catalog that has the
\* placeholder in second place
C13_Witness ==
    /\ is_available({AVAIL_SORTED_LIST})
    /\ ~try_titles
    /\ catalog[2].name = EmptyName
    /\ Len(catalog) = MaxSystems + 1
    /\ Len(m_sorted_list) = MaxSystems

\* C14: the published list is in the order of the comparator: of two neighbours the second does
\* not precede the first, whatever the clones, parents and display names of the catalog,
\* equal display names included.
C14_AdjacentOrder ==
    is_available({AVAIL_SORTED_LIST}) =>
        \A i \in 1..(Len(m_sorted_list) - 1) : ~sort_compare(m_sorted_list[i + 1], m_sorted_list[i])

\* a published list with a clone and two systems that are no clones and have equal display names
C14_Witness ==
    /\ is_available({AVAIL_SORTED_LIST})
    /\ \E i, j, k \in 1..Len(m_sorted_list) :
          /\ i # j
          /\ ~m_sorted_list[i].is_clone
          /\ ~m_sorted_list[j].is_clone
          /\ DisplayName(m_sorted_list[i]) = DisplayName(m_sorted_list[j])
          /\ m_sorted_list[k].is_clone

\* the position in the list of the record that the entry at position j names as its parent, 0
\* when the list has no such record
ParentPosition(j) ==
    LET here == { i \in 1..Len(m_sorted_list) :
                    catalog[m_sorted_list[i].driver].name = catalog[m_sorted_list[j].driver].parent }
    IN  IF here = {} THEN 0 ELSE CHOOSE i \in here : TRUE

\* every clone stands after its parent with only clones of the same parent between them
ClonesFollowParent ==
    \A j \in 1..Len(m_sorted_list) :
        m_sorted_list[j].is_clone /\ ParentPosition(j) # 0 =>
            /\ ParentPosition(j) < j
            /\ \A k \in (ParentPosition(j) + 1)..(j - 1) :
                  /\ m_sorted_list[k].is_clone
                  /\ catalog[m_sorted_list[k].driver].parent = catalog[m_sorted_list[j].driver].parent

\* the records that are no clones stand in the order of their display names
GroupsInOrder ==
    \A i, j \in 1..Len(m_sorted_list) :
        i < j /\ ~m_sorted_list[i].is_clone /\ ~m_sorted_list[j].is_clone =>
            ~compare_names(DisplayName(m_sorted_list[j]), DisplayName(m_sorted_list[i]))

\* C15: in the published list every clone follows its parent with only clones of the same parent
\* between them, and the groups stand in the order of the parents' display names, for every
\* catalog of the bounds, equal display names of records that are no clones included.
C15_CloneGrouping ==
    is_available({AVAIL_SORTED_LIST}) => ClonesFollowParent /\ GroupsInOrder

\* the list as the enumeration pass leaves it: one entry per driver in catalog order, the
\* placeholder among them, no description or reading loaded from a titles file
JustEnumerated ==
    /\ Len(m_sorted_list) = driver_list_total
    /\ \A i \in 1..Len(m_sorted_list) :
          /\ m_sorted_list[i].driver = i
          /\ m_sorted_list[i].reading_description = <<>>
          /\ try_titles => m_sorted_list[i].description = <<>>

\* the positions of do_cache_data from the loading of the titles to the sort
AfterEnumeration == {"load_titles", "fill_titles", "populate_parents", "erase", "sort"}

\* C16: once BIOS_COUNT is available the count is the number of records, the placeholder left
\* out, that carry the BIOS root flag; BIOS_COUNT is published on the list as the enumeration
\* left it, and is available before titles are loaded, the placeholder is erased or the list sorted.
C16_BiosCount ==
    /\ is_available({AVAIL_BIOS_COUNT}) => m_bios_count = BiosRoots
    /\ b_pc \in {"notify_available", "notify_locked"} /\ b_value = {AVAIL_BIOS_COUNT} => JustEnumerated
    /\ b_pc \in AfterEnumeration => is_available({AVAIL_BIOS_COUNT})
    /\ (b_pc = "load_titles" /\ b_x = 1) \/ (b_pc = "erase" /\ ~try_titles) => JustEnumerated

\* the count of a catalog with two BIOS roots and a system that is none is published, the titles
\* file is still to be read
C16_Witness ==
    /\ is_available({AVAIL_BIOS_COUNT})
    /\ b_pc = "load_titles"
    /\ b_x = 1
    /\ m_bios_count = 2
    /\ Cardinality(RealDrivers) = 3

\* the text of a line of the titles file: what stands before its line feed or carriage return
RECURSIVE LineText(_)
LineText(line) ==
    IF line = <<>> \/ line[1] \in {0, 10, 13} THEN <<>>
    ELSE <<line[1]>> \o LineText(Tail(line))

\* the fields of a text, separated by tabs
RECURSIVE TabFields(_, _)
TabFields(text, field) ==
    IF text = <<>> THEN <<field>>
    ELSE IF text[1] = 9 THEN <<field>> \o TabFields(Tail(text), <<>>)
    ELSE TabFields(Tail(text), Append(field, text[1]))

\* the fields of line k of the titles file
TitleFields(k) == TabFields(LineText(titles[k]), <<>>)

\* line k has a tab and names the system name
TitleFor(k, name) == Len(TitleFields(k)) >= 2 /\ TitleFields(k)[1] = name

\* the description and the reading that line k carries, white space trimmed; no third field is
\* an empty reading
TitleDescription(k) == strtrimspace(TitleFields(k)[2])

TitleReading(k) == IF Len(TitleFields(k)) >= 3 THEN strtrimspace(TitleFields(k)[3]) ELSE <<>>

\* the smallest number of a set of line numbers
FirstOf(lines) == CHOOSE k \in lines : \A l \in lines : k <= l

\* the lines for system name that carry a description, and those that carry a reading
DescriptionLines(name) == { k \in 1..Len(titles) : TitleFor(k, name) /\ TitleDescription(k) # <<>> }

ReadingLines(name) == { k \in 1..Len(titles) : TitleFor(k, name) /\ TitleReading(k) # <<>> }

\* a build with titles has published its list
TitlesBuilt == try_titles /\ is_available({AVAIL_SORTED_LIST})

\* the short name of an entry
ShortName(info) == catalog[info.driver].name

\* C17: after a build with titles, an entry for whose short name some line carries a description
\* that is not empty has the description of the first such line; later lines for the same short
\* name do not change it.
C17_FirstDescriptionWins ==
    TitlesBuilt =>
        \A i \in 1..Len(m_sorted_list) :
            DescriptionLines(ShortName(m_sorted_list[i])) # {} =>
                m_sorted_list[i].description =
                    TitleDescription(FirstOf(DescriptionLines(ShortName(m_sorted_list[i]))))

\* the list is published after two lines gave different descriptions for the same system
C17_Witness ==
    /\ TitlesBuilt
    /\ \E i \in 1..Len(m_sorted_list) :
          \E k, l \in DescriptionLines(ShortName(m_sorted_list[i])) :
              /\ k < l
              /\ TitleDescription(k) # TitleDescription(l)
              /\ m_sorted_list[i].description = TitleDescription(k)

\* C18: after a build with titles, an entry for whose short name some line carries a reading that
\* is not empty has the reading of the first such line, and the normalised reading and the
\* normalised manufacturer and reading computed from it.
C18_FirstReadingKept ==
    TitlesBuilt =>
        \A i \in 1..Len(m_sorted_list) :
            LET info == m_sorted_list[i]
                lines == ReadingLines(ShortName(info))
                first == TitleReading(FirstOf(lines))
            IN  lines # {} =>
                    /\ info.reading_description = first
                    /\ info.ucs_reading_description = normalize_unicode(first)
                    /\ info.ucs_manufacturer_reading_description =
                         normalize_unicode(catalog[info.driver].manufacturer \o <<32>> \o first)

\* line k has no tab, or names a system that is not in the catalog
Ignored(k) ==
    \/ Len(TitleFields(k)) < 2
    \/ \A d \in 1..Len(catalog) : catalog[d].name # TitleFields(k)[1]

\* the titles file from line k on without the lines that are ignored
RECURSIVE WithoutIgnored(_)
WithoutIgnored(k) ==
    IF k > Len(titles) THEN <<>>
    ELSE (IF Ignored(k) THEN <<>> ELSE <<titles[k]>>) \o WithoutIgnored(k + 1)

\* the entries of a list, in no order
Entries(list) == { list[i] : i \in 1..Len(list) }

\* C19: a line without tab and a line whose short name is not the short name of a record change
\* nothing, and the lines after them are processed: after a build with titles the entries are
\* those of a build with the titles file from which these lines are taken out.
C19_IgnoredLines ==
    TitlesBuilt /\ (\E k \in 1..Len(titles) : Ignored(k)) =>
        { BeforeUcs(info) : info \in Entries(m_sorted_list) } = Entries(BuildList(WithoutIgnored(1), TRUE))

\* a line for a short name that sorts before "b" and is no record's was followed by a line for
\* "b", whose description the entry has
C19_Witness ==
    /\ TitlesBuilt
    /\ \E k, l \in 1..Len(titles), i \in 1..Len(m_sorted_list) :
          /\ k < l
          /\ Ignored(k)
          /\ Len(TitleFields(k)) >= 2
          /\ StrLess(TitleFields(k)[1], ShortName(m_sorted_list[i]))
          /\ l \in DescriptionLines(ShortName(m_sorted_list[i]))
          /\ m_sorted_list[i].description = TitleDescription(l)

\* the descriptions that the lines of the titles file give for system name
TitleDescriptions(name) == { TitleDescription(k) : k \in DescriptionLines(name) }

\* C20: once the list is published no entry has an empty description: the description is the
\* full name of the catalog, or, after a build with titles, a description that a line of the
\* titles file gives for the entry's short name; an entry that no line gives one has the full name.
C20_NoEmptyDescription ==
    is_available({AVAIL_SORTED_LIST}) =>
        \A i \in 1..Len(m_sorted_list) :
            LET info == m_sorted_list[i]
                given == IF try_titles THEN TitleDescriptions(ShortName(info)) ELSE {}
            IN  /\ info.description # <<>>
                /\ info.description \in given \cup {catalog[info.driver].fullname}
                /\ given = {} => info.description = catalog[info.driver].fullname

\* after a build with titles an entry has the full name although a line names it: the line's
\* description is empty; another entry is named by no line
C20_Witness ==
    /\ TitlesBuilt
    /\ \E i, j \in 1..Len(m_sorted_list) :
          /\ \E k \in 1..Len(titles) : TitleFor(k, ShortName(m_sorted_list[i]))
          /\ DescriptionLines(ShortName(m_sorted_list[i])) = {}
          /\ m_sorted_list[i].description = catalog[m_sorted_list[i].driver].fullname
          /\ \A k \in 1..Len(titles) : ~TitleFor(k, ShortName(m_sorted_list[j]))

\* the positions of do_cache_data that only a build with titles passes
TitlesPath == {"load_titles", "fill_titles", "populate_parents"}

\* the positions of do_cache_data before the enumeration is complete
Enumerating == {"none", "start", "populate_list"}

\* the parent description that the catalog gives driver d: nothing without parent, the full name of
\* the parent record, the parent's short name when the catalog has no such record
CatalogParent(d) ==
    IF ~HasParent(catalog[d]) THEN <<>>
    ELSE IF \E p \in 1..Len(catalog) : catalog[p].name = catalog[d].parent
         THEN catalog[CHOOSE p \in 1..Len(catalog) : catalog[p].name = catalog[d].parent].fullname
         ELSE catalog[d].parent

\* C21: a build without titles file takes the cheap path: it never enters the loading of titles
\* or the back-fill of parents, every entry of a system has from the enumeration on the full name
\* of its record as description and the catalog's parent description, no reading and no default
\* description, and the build ends with all eight stages published.
C21_CheapPath ==
    ~try_titles /\ b_pc \notin Enumerating =>
        /\ b_pc \notin TitlesPath
        /\ \A i \in 1..Len(m_sorted_list) :
              LET info == m_sorted_list[i]
              IN  ShortName(info) # EmptyName =>
                    /\ info.description = catalog[info.driver].fullname
                    /\ info.parent = CatalogParent(info.driver)
                    /\ info.reading_description = <<>>
                    /\ info.ucs_default_description = <<>>
        /\ b_pc = "done" => m_available = Stages

\* a build without titles is done: its list has an entry whose parent is a record of the catalog
\* and one whose parent is none
C21_Witness ==
    /\ ~try_titles
    /\ b_pc = "done"
    /\ m_available = Stages
    /\ \E i, j \in 1..Len(m_sorted_list) :
          /\ m_sorted_list[i].parent = catalog[m_sorted_list[i].driver].parent
          /\ HasParent(catalog[m_sorted_list[j].driver])
          /\ m_sorted_list[j].parent \in FullNames

\* the list has one entry per record of the catalog, the placeholder among them, in the order of
\* the catalog, which is the ascending order of the short names
OnePerRecord ==
    /\ Len(m_sorted_list) = driver_list_total
    /\ \A i \in 1..Len(m_sorted_list) : m_sorted_list[i].driver = i
    /\ \E i \in 1..Len(m_sorted_list) : ShortName(m_sorted_list[i]) = EmptyName
    /\ \A i \in 1..(Len(m_sorted_list) - 1) :
          StrLess(ShortName(m_sorted_list[i]), ShortName(m_sorted_list[i + 1]))

\* the positions of do_cache_data from the removal of the placeholder on
FromErase ==
    {"erase", "sort", "finalise", "ucs_shortname", "ucs_description", "ucs_manuf_desc",
     "ucs_dflt_desc", "ucs_manuf_dflt_desc", "done"}

\* C22: the loading of the titles and the back-fill of the parents come before the removal of the
\* placeholder and the display sort: while the builder is in them the list has one entry per
\* record, placeholder included, in ascending order of the short names, and once the builder has
\* reached the removal it does not go back to them.
C22_SearchesBeforeErase ==
    /\ [](b_pc \in TitlesPath => OnePerRecord /\ ~is_available({AVAIL_SORTED_LIST}))
    /\ [][ (b_pc \in FromErase \/ is_available({AVAIL_SORTED_LIST})) => (b_pc' \notin TitlesPath) ]_vars

\* the back-fill of the parents is under way on a list that holds a loaded description and the
\* placeholder in second place
C22_Witness ==
    /\ b_pc = "populate_parents"
    /\ b_x > 1
    /\ Len(m_sorted_list) > 2
    /\ ShortName(m_sorted_list[2]) = EmptyName
    /\ \E i \in 1..Len(m_sorted_list) :
          m_sorted_list[i].description \notin {<<>>, catalog[m_sorted_list[i].driver].fullname}

\* the positions of the list whose entry has the short name name
NamedPositions(name) == { j \in 1..Len(m_sorted_list) : ShortName(m_sorted_list[j]) = name }

\* the entry at position i has the parent description and parent reading of the record it names
\* as parent, or the parent's short name when no record has that short name
ParentFilled(i) ==
    LET info == m_sorted_list[i]
        parent == catalog[info.driver].parent
    IN  IF \E p \in 1..Len(catalog) : catalog[p].name = parent
        THEN \A j \in NamedPositions(parent) :
                /\ info.parent = m_sorted_list[j].description
                /\ info.reading_parent = m_sorted_list[j].reading_description
        ELSE info.parent = parent

\* C30: after a build with titles every entry with a parent has the description and the reading
\* of the record with exactly the parent's short name as parent description and parent reading,
\* and the parent's short name as parent description when no record has that short name.
C30_ParentBackfill ==
    TitlesBuilt =>
        \A i \in 1..Len(m_sorted_list) :
            HasParent(catalog[m_sorted_list[i].driver]) => ParentFilled(i)

\* stage s is available before and after the step, so the step is no part of a reset
StaysAvailable(s) == is_available({s}) /\ is_available({s})'

\* what the list holds once SORTED_LIST is published: the entries in their order, each with its
\* record, description, reading, parent description and reading, normalised readings, clone flag
ListData(list) ==
    [ i \in 1..Len(list) |->
        [ driver |-> list[i].driver, index |-> list[i].index, is_clone |-> list[i].is_clone,
          description |-> list[i].description, parent |-> list[i].parent,
          reading_description |-> list[i].reading_description,
          reading_parent |-> list[i].reading_parent,
          ucs_reading_description |-> list[i].ucs_reading_description,
          ucs_manufacturer_reading_description |-> list[i].ucs_manufacturer_reading_description ] ]

\* the normalised field that stage s guards, of every entry
UcsData(list, s) ==
    [ i \in 1..Len(list) |->
        IF s = AVAIL_UCS_SHORTNAME THEN list[i].ucs_shortname
        ELSE IF s = AVAIL_UCS_DESCRIPTION THEN list[i].ucs_description
        ELSE IF s = AVAIL_UCS_MANUF_DESC THEN list[i].ucs_manufacturer_description
        ELSE IF s = AVAIL_UCS_DFLT_DESC THEN list[i].ucs_default_description
        ELSE list[i].ucs_manufacturer_default_description ]

UcsStages ==
    { AVAIL_UCS_SHORTNAME, AVAIL_UCS_DESCRIPTION, AVAIL_UCS_MANUF_DESC, AVAIL_UCS_DFLT_DESC,
      AVAIL_UCS_MANUF_DFLT_DESC }

\* C29: what a published stage guards is not written again until a reset: while BIOS_COUNT stays
\* available the count does not change; while SORTED_LIST stays available the list keeps its
\* length, order, descriptions, readings and parent fields; while FILTER_DATA stays available the
\* builder leaves the filter data; while a UCS stage stays available its field keeps its value in
\* every entry.
C29_SetOnce ==
    [][ /\ StaysAvailable(AVAIL_BIOS_COUNT) => m_bios_count' = m_bios_count
        /\ StaysAvailable(AVAIL_SORTED_LIST) => ListData(m_sorted_list') = ListData(m_sorted_list)
        /\ StaysAvailable(AVAIL_FILTER_DATA) => m_filter_data' = m_filter_data
        /\ \A s \in UcsStages :
              StaysAvailable(s) => UcsData(m_sorted_list', s) = UcsData(m_sorted_list, s) ]_vars

\* the builder is in the middle of its last pass over the list of a build with titles, seven
\* stages published, while a thread waits in reset_cache for it to end
C29_Witness ==
    /\ b_pc = "ucs_manuf_dflt_desc"
    /\ b_x > 1
    /\ try_titles
    /\ m_available = Stages \ {AVAIL_UCS_MANUF_DFLT_DESC}
    /\ \E t \in Threads : pc[t] = "rc_join"

\* the entry that candidate k of the search list refers to
EntryOf(k) == m_sorted_list[m_searchlist[k].second]

\* the normalised search text
UcsSearch == normalize_unicode(m_search)

\* populate_search has returned: the candidates are ranked for the search text m_search
SearchDone == s_pc = "idle" /\ m_search # <<>> /\ m_searchlist # <<>>

\* C23: the test of populate_search that finds UCS_SHORTNAME published puts it among the searched
\* fields, and after a search with it among them every entry whose normalised short name is the
\* normalised search text has score 0 and no candidate with another score stands before it.
C23_ExactFirst ==
    /\ [](SearchDone /\ AVAIL_UCS_SHORTNAME \in m_searched_fields =>
            \A k \in 1..Len(m_searchlist) :
                normalize_unicode(ShortName(EntryOf(k))) = UcsSearch =>
                    /\ m_searchlist[k].first = 0
                    /\ \A j \in 1..(k - 1) : m_searchlist[j].first = 0)
    /\ [][ s_pc = "searched_fields" /\ s_x = 1 /\ s_x' = 2 /\ is_available({AVAIL_UCS_SHORTNAME})
           => AVAIL_UCS_SHORTNAME \in m_searched_fields' ]_vars

\* the search for "B" has put the entry of "b", the last of the sorted list, first with score 0,
\* before a candidate with another score
C23_Witness ==
    /\ SearchDone
    /\ m_search = <<66>>
    /\ AVAIL_UCS_SHORTNAME \in m_searched_fields
    /\ ShortName(EntryOf(1)) = <<98>>
    /\ m_searchlist[1].first = 0
    /\ m_searchlist[1].second = Len(m_sorted_list)
    /\ m_searchlist[2].first # 0

\* C24: when populate_search has returned, the search list has one candidate for every entry of
\* the sorted list and none else, and no candidate has a lower score than the one before it.
C24_RankedCandidates ==
    s_pc = "idle" /\ m_searchlist # <<>> =>
        /\ Len(m_searchlist) = Len(m_sorted_list)
        /\ \A i \in 1..Len(m_sorted_list) :
              Cardinality({ k \in 1..Len(m_searchlist) : m_searchlist[k].second = i }) = 1
        /\ \A k \in 1..(Len(m_searchlist) - 1) : m_searchlist[k].first <= m_searchlist[k + 1].first

\* a search has returned with three different scores, in another order than the sorted list
C24_Witness ==
    /\ SearchDone
    /\ Cardinality({ m_searchlist[k].first : k \in 1..Len(m_searchlist) }) = 3
    /\ \E k \in 1..Len(m_searchlist) : m_searchlist[k].second # k

\* C25: when populate_search has returned, two candidates with equal scores stand in the order
\* that their entries have in the sorted list, whatever was searched before.
C25_TiesInListOrder ==
    SearchDone =>
        \A j, k \in 1..Len(m_searchlist) :
            j < k /\ m_searchlist[j].first = m_searchlist[k].first =>
                m_searchlist[j].second < m_searchlist[k].second

\* the entry without the normalised fields of the stages that are not in fields
OnlyFields(sys, fields) ==
    [sys EXCEPT
        !.ucs_shortname = IF AVAIL_UCS_SHORTNAME \in fields THEN @ ELSE <<>>,
        !.ucs_description = IF AVAIL_UCS_DESCRIPTION \in fields THEN @ ELSE <<>>,
        !.ucs_manufacturer_description = IF AVAIL_UCS_MANUF_DESC \in fields THEN @ ELSE <<>>,
        !.ucs_default_description = IF AVAIL_UCS_DFLT_DESC \in fields THEN @ ELSE <<120, 120>>,
        !.ucs_manufacturer_default_description = IF AVAIL_UCS_MANUF_DFLT_DESC \in fields THEN @ ELSE <<>>]

\* C26: while the menu exists the searched fields are stages that are available; the scores
\* that populate_search computes do not depend on the normalised fields of the stages that are not
\* searched; and populate_search waits for SORTED_LIST at most: past the population of its list
\* each of its steps can be taken whatever the builder has published.
C26_SearchesPublished ==
    /\ s_pc # "none" => m_searched_fields \subseteq m_available
    /\ s_pc = "sort" =>
          \A k \in 1..Len(m_searchlist) :
              m_searchlist[k].first =
                  search_score(UcsSearch, OnlyFields(EntryOf(k), m_available), m_searched_fields)
    /\ s_pc = "populate_search" /\ (m_searchlist # <<>> \/ is_available({AVAIL_SORTED_LIST})) =>
          ENABLED SearchList
    /\ s_pc = "searched_fields" => ENABLED SearchedFields
    /\ s_pc = "score" => \E first \in { candidate_score(s_x) } : ENABLED score_candidate(first)
    /\ s_pc = "sort" => ENABLED SearchSort

\* the scores are computed from the short names alone while the builder is half way through the
\* pass that normalises the descriptions
C26_Witness ==
    /\ s_pc = "sort"
    /\ m_searched_fields = {AVAIL_UCS_SHORTNAME}
    /\ b_pc = "ucs_description"
    /\ b_x > 1
    /\ ~is_available({AVAIL_UCS_DESCRIPTION})

\* the normalised fields of an entry that a search with the searched fields `fields` considers
Considered(sys, fields) ==
    (IF AVAIL_UCS_SHORTNAME \in fields THEN {sys.ucs_shortname} ELSE {})
    \cup (IF sys.ucs_reading_description # <<>>
          THEN {sys.ucs_reading_description, sys.ucs_manufacturer_reading_description}
          ELSE {})
    \cup (IF AVAIL_UCS_DESCRIPTION \in fields THEN {sys.ucs_description} ELSE {})
    \cup (IF AVAIL_UCS_MANUF_DESC \in fields THEN {sys.ucs_manufacturer_description} ELSE {})
    \cup (IF AVAIL_UCS_DFLT_DESC \in fields /\ sys.ucs_default_description # <<>>
          THEN {sys.ucs_default_description}
          ELSE {})
    \cup (IF AVAIL_UCS_MANUF_DFLT_DESC \in fields /\ sys.ucs_manufacturer_default_description # <<>>
          THEN {sys.ucs_manufacturer_default_description}
          ELSE {})

\* the least edit distance from text to the strings of a set, 1.0 for the empty set
LeastDistance(text, strings) ==
    IF strings = {} THEN ScoreOne
    ELSE LET distances == { edit_distance(text, f) : f \in strings }
         IN  CHOOSE d \in distances : \A e \in distances : d <= e

\* C27: when populate_search has returned, the score of every candidate is the least edit
\* distance from the normalised search text to the fields considered for its entry: the short
\* name, the reading and the manufacturer and reading when there is a reading, the description,
\* the manufacturer and description, the default description and the manufacturer and default
\* description when present, each only when its stage is searched; 1.0 when none is considered.
C27_LeastDistance ==
    SearchDone =>
        \A k \in 1..Len(m_searchlist) :
            m_searchlist[k].first = LeastDistance(UcsSearch, Considered(EntryOf(k), m_searched_fields))

\* SORTED_LIST and FILTER_DATA are published
ListAndFiltersPublished == is_available({AVAIL_SORTED_LIST, AVAIL_FILTER_DATA})

\* the sorted list with the available flags of the list `flags`
WithAvailableOf(list, flags) ==
    [ i \in 1..Len(list) |-> [ list[i] EXCEPT !.available = flags[i].available ] ]

\* C28, as stated: once SORTED_LIST and FILTER_DATA are published, no step of the menu changes an
\* entry of the sorted list or the filter data.
C28_ReadOnly ==
    [][ ListAndFiltersPublished /\ SessionStep =>
            m_sorted_list' = m_sorted_list /\ m_filter_data' = m_filter_data ]_vars

\* C28, amended: once SORTED_LIST and FILTER_DATA are published, a step of the menu leaves the
\* length and the order of the sorted list and every field of its entries but the available
\* flag, and the manufacturers and years of the filter data; only load_available_machines and
\* build_available_list change the flags, only the loading and the selection of filters change
\* the current filter, and the construction, populate, the search and the destruction change
\* neither.
C28_ConsumerFrame ==
    [][ ListAndFiltersPublished /\ SessionStep =>
            /\ Len(m_sorted_list') = Len(m_sorted_list)
            /\ WithAvailableOf(m_sorted_list', m_sorted_list) = m_sorted_list
            /\ [m_filter_data' EXCEPT !.current_filter_type = m_filter_data.current_filter_type]
                   = m_filter_data
            /\ m_sorted_list' # m_sorted_list => s_pc \in {"load_available_machines", "build_available_list"}
            /\ m_filter_data' # m_filter_data =>
                   /\ s_pc \in {"load_filters", "idle"}
                   /\ s_pc' = "idle"
                   /\ UNCHANGED << m_search, m_searchlist, m_searched_fields >> ]_vars

\* a menu that was constructed with every stage published and the favourites current, which an
\* earlier menu chose, has marked every entry available and is about to load its filters
C28_Witness ==
    /\ s_pc = "load_filters"
    /\ b_pc = "done"
    /\ m_available = Stages
    /\ m_filter_data.current_filter_type = "FAVORITE"
    /\ \A i \in 1..Len(m_sorted_list) : m_sorted_list[i].available

\* the positions of reset_cache and of ~persistent_data after the join
TeardownPastJoin == PastJoin \cup {"dt_members", "dt_destroyed"}

\* this step clears the mask, empties the list, or replaces finalised filter data by fresh ones
Cleared ==
    \/ m_available # AVAIL_NONE /\ m_available' = AVAIL_NONE
    \/ m_sorted_list # <<>> /\ m_sorted_list' = <<>>
    \/ m_filter_data.finalised /\ ~m_filter_data'.finalised
    \/ m_bios_count # 0 /\ m_bios_count' = 0

\* C31: reset_cache and ~persistent_data join the builder thread, if there is one, before they
\* clear or release anything: past the join of either the builder is not running, the step that
\* leaves the join is taken only with the builder returned or absent, no step of the builder is
\* taken while a teardown is past its join, and the mask and the data are cleared only by a
\* teardown past its join.
C31_JoinFirst ==
    /\ [](\A t \in Threads : pc[t] \in TeardownPastJoin => ~BuilderRunning)
    /\ [][ /\ \A t \in Threads :
                  Leaves(t, "rc_join") \/ Leaves(t, "dt_join") => m_thread = 0 \/ b_pc = "done"
           /\ (\E t \in Threads : pc[t] \in TeardownPastJoin) =>
                  b_pc' \in {b_pc, "none"} /\ b_x' \in {b_x, 1}
           /\ Cleared => \E t \in Threads : pc[t] \in TeardownPastJoin /\ pc'[t] # pc[t] ]_vars

\* the destructor has joined a builder that published every stage and is about to release the
\* list and the filter data
C31_Witness ==
    \E t \in Threads :
        /\ pc[t] = "dt_members"
        /\ m_thread # 0
        /\ b_pc = "done"
        /\ m_available = Stages
        /\ m_sorted_list # <<>>

\* the comparator on the entries at the positions i and j of the list that is about to be sorted
Precedes(i, j) == sort_compare(m_sorted_list[i], m_sorted_list[j])

\* neither entry precedes the other
Incomparable(i, j) == ~Precedes(i, j) /\ ~Precedes(j, i)

\* C32: on the list that do_cache_data hands to std::stable_sort the comparator is a strict weak
\* ordering: no entry precedes itself, no two entries precede each other, precedence is
\* transitive and so is incomparability.
C32_StrictWeakOrdering ==
    b_pc = "sort" =>
        \A i, j, k \in 1..Len(m_sorted_list) :
            /\ ~Precedes(i, i)
            /\ Precedes(i, j) => ~Precedes(j, i)
            /\ Precedes(i, j) /\ Precedes(j, k) => Precedes(i, k)
            /\ Incomparable(i, j) /\ Incomparable(j, k) => Incomparable(i, k)

\* no line of the titles file names a record of the catalog
NoTitleMatches ==
    \A k \in 1..Len(titles), i \in 1..Len(catalog) : ~TitleFor(k, catalog[i].name)

\* the lists that a build without titles file can publish
CheapLists == stable_sorts(erase(populate_list(TRUE), driver_list_find(EmptyName)))

\* the same records at the same positions with the same description, parent description and
\* clone flag
SameListing(a, b) ==
    /\ Len(a) = Len(b)
    /\ \A i \in 1..Len(a) :
          /\ a[i].driver = b[i].driver
          /\ a[i].description = b[i].description
          /\ a[i].parent = b[i].parent
          /\ a[i].is_clone = b[i].is_clone

\* C33: the list published by a build with a titles file of which no line names a record is a
\* list that the build without titles file publishes: the same records at the same positions
\* with the same description, parent description and clone flag.
C33_OverlayAgrees ==
    try_titles /\ NoTitleMatches /\ is_available({AVAIL_SORTED_LIST}) =>
        \E cheap \in CheapLists : SameListing(m_sorted_list, cheap)

\* the stages that the blocking accessor waits for which the menu calls next at its position:
\* sorted_list() in load_available_machines, build_available_list and the population of the
\* search list, filter_data() in the loading and the selection of filters, populate and the
\* destructor; none elsewhere
Awaited ==
    IF s_pc \in {"load_available_machines", "build_available_list"} THEN {AVAIL_SORTED_LIST}
    ELSE IF s_pc \in {"load_filters", "idle", "stack_reset"} THEN {AVAIL_FILTER_DATA}
    ELSE IF s_pc = "populate_search" /\ m_searchlist = <<>> THEN {AVAIL_SORTED_LIST}
    ELSE AVAIL_NONE

C35_WaiterReturns ==
    \A t \in Threads : (pc[t] \in InWait /\ m_started) ~> (pc[t] = "idle" \/ aborted)

\* ------------------------------------------------------------------------
\* The input mapping menu (menu_input)
\* ------------------------------------------------------------------------

\* the items of the menu: the inputs of the machine
NumItems == 2

\* the longest sequence of codes
MaxSeqLen == 2

\* the last value of the clock
MaxTicks == 3

Items == 1 .. NumItems

\* the codes an input_seq is made of
Codes == {1}

\* input_seq: the sequences of codes, the empty one included
Seqs == UNION { [1 .. n -> Codes] : n \in 0 .. MaxSeqLen }

\* *item.defseq: the first input has a default sequence, the second has none
defseq(item) == IF item = 1 THEN << 1 >> ELSE << >>

\* the values of event::iptkey: IPT_UI_UP stands for every key without a case in handle
Keys == {"IPT_UI_SELECT", "IPT_UI_CLEAR", "IPT_UI_LEFT", "IPT_UI_RIGHT", "IPT_UI_UP"}

\* what process() returns for a selection: a null pointer, or the event of a key with the
\* reference of the selected row
Events(sel) == {NoEvent} \cup { [itemref |-> sel, iptkey |-> k, null |-> FALSE] : k \in Keys }

\* everything but the input mapping menu
selgameVars ==
    << inputVars, builds, syncVars, dataVars, builderVars, fgVars, spawned, aborted, sessionVars >>

\* the machine has NumItems inputs with any configured sequences of at most one code, and
\* the menu has been constructed
InputInit ==
    /\ catalog = Catalog0
    /\ titles = Titles0
    /\ InitCache
    /\ menu_input
    /\ settings \in [Items -> { q \in Seqs : Len(q) <= 1 }]

\* menu_input_general::populate and menu_input_specific::populate: the items are created from
\* the configured sequences when data is empty, and their sequences are read again otherwise
menu_input_populate ==
    /\ ~populated
    /\ data' = [i \in Items |-> [seq |-> settings[i]]]
    /\ selected' = IF selected = 0 THEN 1 ELSE selected
    /\ populated' = TRUE
    /\ UNCHANGED << settings, pollingitem, seq_poll, errormsg, erroritem, lastitem, record_next,
                    modified_ticks, starting_seq, osd, menu_event, seqchangeditem, polled >>
    /\ UNCHANGED selgameVars

\* toggle_none_default that always resets the sequence
toggle_none_default_AlwaysNone(original_seq, selected_defseq) == << >>

\* toggle_none_default: the value selected_seq gets
toggle_none_default(original_seq, selected_defseq) ==
    IF original_seq = << >> THEN selected_defseq ELSE << >>

\* update_input: the configured sequences after the call
update_input(d, item) == [settings EXCEPT ![item] = d[item].seq]

\* the end of handle: update_input for the changed item, and reset() of the menu
finish_handle(d, changed, invalidate) ==
    /\ data' = d
    /\ seqchangeditem' = changed
    /\ settings' = IF changed # 0 THEN update_input(d, changed) ELSE settings
    /\ populated' = ~(invalidate \/ changed # 0)

\* seq_poll->start() and seq_poll->start(item.seq) on a new poller
start_poller(initial, append) ==
    [sequence |-> IF append THEN initial ELSE << >>, modified |-> FALSE, append |-> append,
     held |-> TRUE]

\* seq_poll->poll(): the poller may have met one more code, and tells whether it has finished;
\* valid is what seq_poll->valid() tells afterwards
PollResults(p) ==
    { [poller |-> [p EXCEPT !.sequence = q, !.modified = p.modified \/ q # p.sequence],
       finished |-> o[1], valid |-> o[2]] :
        q \in {p.sequence} \cup
              (IF Len(p.sequence) < MaxSeqLen
                 THEN { Append(p.sequence, c) : c \in Codes } ELSE {}),
        o \in { << FALSE, FALSE >>, << TRUE, FALSE >>, << TRUE, TRUE >> } }

\* poll_cancel without seq_poll.reset()
poll_cancel_KeepPoller(item, now) ==
    /\ pollingitem' = 0
    /\ UNCHANGED seq_poll
    /\ polled' = "cancel"
    /\ osd' = now
    /\ UNCHANGED << errormsg, erroritem >>
    /\ IF ~seq_poll.modified \/ modified_ticks' = now
         THEN /\ record_next' = FALSE
              /\ finish_handle([data EXCEPT ![item].seq =
                                    toggle_none_default(starting_seq, defseq(item))],
                               item, FALSE)
         ELSE /\ UNCHANGED record_next
              /\ finish_handle(data, 0, TRUE)

\* handle while polling, UI cancel pressed: now is what osd_ticks() returns in the test
poll_cancel(item, now) ==
    /\ pollingitem' = 0
    /\ seq_poll' = NoPoller
    /\ polled' = "cancel"
    /\ osd' = now
    /\ UNCHANGED << errormsg, erroritem >>
    /\ IF ~seq_poll.modified \/ modified_ticks' = now
         THEN /\ record_next' = FALSE
              /\ finish_handle([data EXCEPT ![item].seq =
                                    toggle_none_default(starting_seq, defseq(item))],
                               item, FALSE)
         ELSE /\ UNCHANGED record_next
              /\ finish_handle(data, 0, TRUE)

\* poll_finished that stores an invalid sequence too
poll_finished_StoreInvalid(item, res) ==
    /\ pollingitem' = 0
    /\ seq_poll' = NoPoller
    /\ polled' = IF res.valid THEN "finished" ELSE "invalid"
    /\ IF res.valid
         THEN /\ record_next' = TRUE
              /\ UNCHANGED << errormsg, erroritem >>
              /\ finish_handle([data EXCEPT ![item].seq = res.poller.sequence], item, FALSE)
         ELSE /\ errormsg' = "Invalid sequence entered"
              /\ erroritem' = item
              /\ UNCHANGED record_next
              /\ finish_handle([data EXCEPT ![item].seq = res.poller.sequence], item, TRUE)

\* handle while polling, poll() returned true
poll_finished(item, res) ==
    /\ pollingitem' = 0
    /\ seq_poll' = NoPoller
    /\ polled' = IF res.valid THEN "finished" ELSE "invalid"
    /\ IF res.valid
         THEN /\ record_next' = TRUE
              /\ UNCHANGED << errormsg, erroritem >>
              /\ finish_handle([data EXCEPT ![item].seq = res.poller.sequence], item, FALSE)
         ELSE /\ errormsg' = "Invalid sequence entered"
              /\ erroritem' = item
              /\ UNCHANGED record_next
              /\ finish_handle(data, 0, TRUE)

\* handle while polling, poll() returned false
poll_pending(res) ==
    /\ seq_poll' = res.poller
    /\ polled' = "pending"
    /\ UNCHANGED << pollingitem, errormsg, erroritem, record_next >>
    /\ finish_handle(data, 0, FALSE)

\* handle, the branch of if (pollingitem): t1 and t2 are what the two calls of osd_ticks()
\* return, cancel is machine().ui_input().pressed(IPT_UI_CANCEL)
handle_polling(cancel, t1, t2, res) ==
    /\ pollingitem # 0
    /\ modified_ticks' = IF modified_ticks = 0 /\ seq_poll.modified THEN t1 ELSE modified_ticks
    /\ IF cancel
         THEN poll_cancel(pollingitem, t2)
         ELSE /\ osd' = t1
              /\ IF res.finished
                   THEN poll_finished(pollingitem, res)
                   ELSE poll_pending(res)
    /\ UNCHANGED << lastitem, starting_seq >>

\* case IPT_UI_SELECT
event_select(item) ==
    /\ errormsg' = ""
    /\ erroritem' = 0
    /\ modified_ticks' = 0
    /\ pollingitem' = item
    /\ lastitem' = item
    /\ starting_seq' = data[item].seq
    /\ seq_poll' = start_poller(data[item].seq, record_next)
    /\ UNCHANGED record_next
    /\ finish_handle(data, 0, TRUE)

\* case IPT_UI_CLEAR, and the test of the selection after the switch
event_clear(item) ==
    /\ errormsg' = ""
    /\ erroritem' = 0
    /\ record_next' = FALSE
    /\ lastitem' = item
    /\ UNCHANGED << modified_ticks, pollingitem, starting_seq, seq_poll >>
    /\ finish_handle([data EXCEPT ![item].seq = toggle_none_default(data[item].seq, defseq(item))],
                     item, FALSE)

\* case IPT_UI_LEFT, case IPT_UI_RIGHT and the keys without a case: flip is whether the key
\* flips between set and append; then the test of the selection after the switch
event_other(item, flip) ==
    /\ record_next' =
          IF item # lastitem THEN FALSE
          ELSE IF flip /\ (record_next \/ data[item].seq # << >>) THEN ~record_next
          ELSE record_next
    /\ errormsg' = IF item # lastitem /\ erroritem # 0 THEN "" ELSE errormsg
    /\ erroritem' = IF item # lastitem THEN 0 ELSE erroritem
    /\ lastitem' = item
    /\ UNCHANGED << modified_ticks, pollingitem, starting_seq, seq_poll >>
    /\ finish_handle(data, 0, FALSE)

\* handle, the branch of else if (menu_event && menu_event->itemref)
handle_event(ev) ==
    /\ pollingitem = 0
    /\ ~ev.null
    /\ ev.itemref # 0
    /\ CASE ev.iptkey = "IPT_UI_SELECT" -> event_select(ev.itemref)
         [] ev.iptkey = "IPT_UI_CLEAR" -> event_clear(ev.itemref)
         [] OTHER -> event_other(ev.itemref, ev.iptkey \in {"IPT_UI_LEFT", "IPT_UI_RIGHT"})
    /\ polled' = "none"
    /\ UNCHANGED osd

\* handle without polling and without an event for an item
handle_idle(ev) ==
    /\ pollingitem = 0
    /\ ev.null \/ ev.itemref = 0
    /\ polled' = "none"
    /\ UNCHANGED << pollingitem, seq_poll, errormsg, erroritem, lastitem, record_next,
                    modified_ticks, starting_seq, osd >>
    /\ finish_handle(data, 0, FALSE)

\* menu_input::handle: process() moves the selection to sel and returns ev
handle ==
    /\ populated
    /\ \E sel \in 0 .. NumItems :
        \E ev \in Events(sel) :
            /\ selected' = sel
            /\ menu_event' = ev
            /\ \/ /\ pollingitem # 0
                  /\ \E t1 \in osd .. MaxTicks :
                        /\ (modified_ticks = 0 /\ seq_poll.modified) \/ t1 = osd
                        /\ \/ \E t2 \in t1 .. MaxTicks :
                                /\ seq_poll.modified \/ t2 = t1
                                /\ handle_polling(TRUE, t1, t2,
                                      [poller |-> seq_poll, finished |-> FALSE, valid |-> FALSE])
                           \/ \E res \in PollResults(seq_poll) :
                                handle_polling(FALSE, t1, t1, res)
               \/ handle_event(ev)
               \/ handle_idle(ev)
    /\ UNCHANGED selgameVars

\* menu_input::custom_render(selectedref, ...): the error is dropped when the selection is
\* on another row than the item of the error
custom_render ==
    /\ populated
    /\ IF pollingitem = 0 /\ erroritem # 0 /\ selected # erroritem
         THEN errormsg' = "" /\ erroritem' = 0
         ELSE UNCHANGED << errormsg, erroritem >>
    /\ UNCHANGED << settings, data, pollingitem, seq_poll, lastitem, record_next, modified_ticks,
                    starting_seq, osd, selected, populated, menu_event, seqchangeditem, polled >>
    /\ UNCHANGED selgameVars

InputNext ==
    \/ menu_input_populate
    \/ handle
    \/ custom_render

\* the input mapping menu alone, with every event, key and poller outcome
InputSpec == InputInit /\ [][InputNext]_vars

\* ------------------------------------------------------------------------
\* Claims on the input mapping menu
\* ------------------------------------------------------------------------

\* the step is one call of handle while the menu is polling
PollingCall == populated /\ pollingitem # 0 /\ mapVars' # mapVars

\* C36: at every return from handle, pollingitem is not null exactly when seq_poll holds a
\* poller; polling starts only in a call that had a SELECT event for the item, it ends only in
\* a call that met UI cancel or a finished poller, and then both are cleared; and a call made
\* while polling does nothing of what the events do: the last item and the starting sequence
\* stay, the sequences of the other items stay, and the call changes record_next or the
\* polled item's sequence only when the polling ends and the error only when it finishes with an invalid sequence.
C36_PollingTogether ==
    /\ [](pollingitem # 0 <=> seq_poll.held)
    /\ [][ /\ pollingitem = 0 /\ pollingitem' # 0 =>
                /\ ~menu_event'.null
                /\ menu_event'.iptkey = "IPT_UI_SELECT"
                /\ menu_event'.itemref = pollingitem'
           /\ pollingitem # 0 /\ pollingitem' # pollingitem =>
                /\ pollingitem' = 0
                /\ seq_poll' = NoPoller
                /\ polled' \in {"cancel", "finished", "invalid"}
           /\ PollingCall =>
                /\ polled' \in {"pending", "cancel", "finished", "invalid"}
                /\ (polled' = "pending") = (pollingitem' # 0)
                /\ lastitem' = lastitem
                /\ starting_seq' = starting_seq
                /\ \A i \in Items \ {pollingitem} :
                        data'[i] = data[i] /\ settings'[i] = settings[i]
                /\ polled' = "pending" =>
                        UNCHANGED << data, settings, record_next, errormsg, erroritem >>
                /\ polled' \in {"cancel", "finished"} => UNCHANGED << errormsg, erroritem >> ]_vars

\* a CLEAR event for the other item arrived while the menu is polling, and the polling goes on
C36_Witness ==
    /\ pollingitem = 1
    /\ seq_poll.held
    /\ polled = "pending"
    /\ ~menu_event.null
    /\ menu_event.iptkey = "IPT_UI_CLEAR"
    /\ menu_event.itemref = 2
    /\ data[2].seq # << >>

\* C37: a call of handle that has an event for another item than lastitem (the only step that
\* changes lastitem) leaves record_next false, and a poller it starts is in set mode.
C37_AppendStaysWithItem ==
    [][ pollingitem = 0 /\ lastitem' # lastitem =>
            /\ ~menu_event'.null
            /\ menu_event'.itemref = lastitem'
            /\ ~record_next'
            /\ seq_poll'.held => ~seq_poll'.append ]_vars

\* the item's sequence is the default one if q, the sequence it is toggled from, is empty, and
\* is empty otherwise; update_input was called for the item, and the append flag is off
ToggledFrom(q, item) ==
    /\ data'[item].seq = IF q = << >> THEN defseq(item) ELSE << >>
    /\ \A i \in Items \ {item} : data'[i] = data[i]
    /\ seqchangeditem' = item
    /\ settings' = [settings EXCEPT ![item] = data'[item].seq]
    /\ ~record_next'

\* C38: while an item is polled its sequence is the one it had when the polling started; a
\* call of handle that meets UI cancel while the poller has no input yet toggles the item's
\* sequence from the one at the start of the polling, calls update_input and clears
\* record_next; and a call with a CLEAR event for an item, when nothing is polled, toggles the
\* item's sequence from its current one in the same way.
C38_ToggleNoneDefault ==
    /\ [](pollingitem # 0 =>
            /\ data[pollingitem].seq = starting_seq
            /\ settings[pollingitem] = starting_seq)
    /\ [][ /\ pollingitem # 0 /\ ~seq_poll.modified /\ pollingitem' = 0 /\ polled' = "cancel" =>
                ToggledFrom(data[pollingitem].seq, pollingitem)
           /\ ( /\ populated /\ pollingitem = 0
                /\ menu_event' # menu_event
                /\ ~menu_event'.null /\ menu_event'.itemref # 0
                /\ menu_event'.iptkey = "IPT_UI_CLEAR" ) =>
                ToggledFrom(data[menu_event'.itemref].seq, menu_event'.itemref) ]_vars

\* the polling of the first item, whose sequence was empty, was cancelled before any input,
\* and the item has its default sequence
C38_Witness ==
    /\ polled = "cancel"
    /\ pollingitem = 0
    /\ modified_ticks = 0
    /\ seqchangeditem = 1
    /\ starting_seq = << >>
    /\ data[1].seq = << 1 >>
    /\ settings[1] = << 1 >>
    /\ ~record_next

\* the polling of the item ends without a change: its sequence and the configured one are
\* those of the start of the polling, and update_input is not called
Abandoned(item) ==
    /\ data' = data
    /\ settings' = settings
    /\ data'[item].seq = starting_seq
    /\ settings'[item] = starting_seq
    /\ seqchangeditem' = 0

\* the step is a call of handle, nothing being polled, with a key of keys for an item
KeyFor(keys) ==
    /\ populated /\ pollingitem = 0
    /\ menu_event' # menu_event \/ ~populated'
    /\ ~menu_event'.null /\ menu_event'.itemref # 0
    /\ menu_event'.iptkey \in keys

\* a polling that ends with an invalid sequence changes nothing and sets the error for the
\* polled item; the error is dropped by a SELECT or CLEAR event and by an event for another
\* item than the last one
ErrorRules ==
    /\ pollingitem # 0 /\ pollingitem' = 0 /\ polled' = "invalid" =>
            /\ Abandoned(pollingitem)
            /\ errormsg' = "Invalid sequence entered"
            /\ erroritem' = pollingitem
    /\ KeyFor({"IPT_UI_SELECT", "IPT_UI_CLEAR"}) => errormsg' = "" /\ erroritem' = 0
    /\ pollingitem = 0 /\ lastitem' # lastitem => errormsg' = "" /\ erroritem' = 0

\* the error is for an item and its message is set, and custom_render drops it when the
\* selection is on another row
RenderDropsError ==
    /\ (erroritem # 0) = (errormsg # "")
    /\ erroritem # 0 => pollingitem = 0 /\ erroritem = lastitem
    /\ populated /\ erroritem # 0 /\ selected # erroritem =>
            ENABLED (custom_render /\ errormsg' = "" /\ erroritem' = 0)

\* C39 as stated: a polling that ends by cancel after the poller had input, or by an invalid
\* sequence, leaves the item's sequence as it was when the polling started and does not call
\* update_input; the invalid case sets the error for the polled item, and the error is dropped
\* by the next SELECT or CLEAR event and when the selection moves to another item.
C39_AbandonedPolling ==
    /\ []RenderDropsError
    /\ [][ /\ pollingitem # 0 /\ pollingitem' = 0 /\ polled' = "cancel" /\ seq_poll.modified =>
                Abandoned(pollingitem)
           /\ ErrorRules ]_vars

\* C39 amended: the same, for a cancel that comes at another clock value than the one at
\* which handle first saw the poller's input.
C39_AbandonedUnlessSameTick ==
    /\ []RenderDropsError
    /\ [][ /\ ( /\ pollingitem # 0 /\ pollingitem' = 0 /\ polled' = "cancel"
                /\ seq_poll.modified /\ modified_ticks' # osd' ) =>
                Abandoned(pollingitem)
           /\ ErrorRules ]_vars

\* the polling of the second item, which had a sequence, was cancelled at a later clock value
\* than the one of its first input, and the sequence is still there
C39_Witness ==
    /\ polled = "cancel"
    /\ pollingitem = 0
    /\ lastitem = 2
    /\ modified_ticks # 0
    /\ modified_ticks < osd
    /\ seqchangeditem = 0
    /\ starting_seq = << 1 >>
    /\ data[2].seq = << 1 >>
    /\ settings[2] = << 1 >>
====
